---- MODULE Spec2Model ----
(***************************************************************************)
(* Model of the ACC synchronisation / merge engine and of the response     *)
(* dispatch and manual-response confirmation workflow.                     *)
(*                                                                         *)
(*   server/src/services/enhancedSyncService.ts  processRfi,               *)
(*                                               processSubmittal,         *)
(*                                               hashAccData, detectChanges*)
(*   services/responseService.ts                 send*ResponseToAcc,       *)
(*                                               confirmManual*Response    *)
(*   services/rfiService.ts, submittalService.ts update*, assign*,         *)
(*                                               acknowledgeAccChanges     *)
(*   services/workflowService.ts                 calculateInternalDeadlines*)
(*                                                                         *)
(* Every service function is one action.  A row of the Rfi / Submittal     *)
(* table is a record; a table is a function from the row's unique key      *)
(* (accProjectLinkId, external id) to the row.  Prisma's "undefined means  *)
(* do not touch the column" is modelled by update payloads whose DOMAIN    *)
(* holds exactly the columns that are written.                             *)
(***************************************************************************)
EXTENDS Integers, Sequences, FiniteSets, TLC

\* ------------------------------------------------------------------ bounds
\* The clock: every call that writes to the store takes one tick, and no
\* call starts at MaxTime.  A call that is rejected before its first write
\* leaves the clock alone.
MaxTime == 5
\* Longest selectedFilePaths list of a send request.
MaxFiles == 2
\* The clock bound of the runs that inject faults into the dispatch.
MaxDispatchTime == 3
\* The number of awaited calls that fail during one run of the orchestrator.
MaxFaults == 2

\* ------------------------------------------------------- values and inputs
NULL == "null"
UNDEF == "undefined"
\* a null DateTime column (the clock starts at 1)
NoTime == 0
\* the result of `nullDate?.toISOString()`
UndefTime == -1
Empty == [x \in {} |-> TRUE]
\* the due date the external items carry, later than every clock value
DueDate == 4 * MaxTime

Modules == {"RFI", "SUBMITTAL"}
Links == {"L1"}
ExtIds == {"X-1"}
Ids == Links \X ExtIds

Users == {"admin", "flagged", "reviewer", "outsider"}

InternalStatuses ==
  {"UNASSIGNED", "ASSIGNED_FOR_REVIEW", "UNDER_REVIEW", "UNDER_QC",
   "READY_FOR_RESPONSE", "SENT_TO_ACC", "CLOSED"}

\* Field domains of the items listed by the external platform.
AccStatuses == {"open", "closed"}
AccTitles == {"Beam"}
AccDescriptions == {"d1"}
AccPriorities == {"High"}
AccDueDates == {DueDate}
AccDisciplines == {"Structural"}
AccUpdatedAts == {"u1"}

\* `response` is optional: the empty set when the item carries none.
AccResponses ==
  {[text |-> "", status |-> UNDEF, respondedBy |-> "ext-user",
    respondedAt |-> "r1"],
   [text |-> "Approved", status |-> "answered", respondedBy |-> "ext-user",
    respondedAt |-> "r1"],
   [text |-> "Revised", status |-> UNDEF, respondedBy |-> "ext-user",
    respondedAt |-> "r2"]}

AccItems ==
  [id : ExtIds, status : AccStatuses, title : AccTitles,
   description : AccDescriptions, priority : AccPriorities,
   dueDate : AccDueDates, assignedTo : {<<"sub-1">>},
   updatedAt : AccUpdatedAts, discipline : AccDisciplines,
   specSection : {"05 12 00"}, packageNumber : {"P-1"},
   response : {{}} \cup {{r} : r \in AccResponses}]

\* an open item that carries no response
StoredItem ==
  CHOOSE a \in AccItems : a.status = "open" /\ a.response = {}

\* ----------------------------------------------------------------- state
VARIABLES
  now,            \* the clock read by `new Date()`
  accProjectLink, \* table AccProjectLink: id -> the link's sync toggles
  rfi,            \* table Rfi: (accProjectLinkId, accRfiId) -> row
  submittal,      \* table Submittal
  assignments,    \* tables RfiAssignment / SubmittalAssignment
  comments,       \* table Comment
  auditLog,       \* table AuditLog, in insertion order
  statusHistory,  \* table StatusHistory, in insertion order
  last,           \* the call that just returned: its arguments and outcome
  transition,     \* a call of canTransitionStatus: its arguments and result
  syncLog,        \* table SyncLog, in insertion order
  syncCursor,     \* table SyncCursor, by (projectId, module)
  ingestedItem,   \* table IngestedItem of the polling sync, by row id
  runs            \* the calls in flight: their position and locals

vars == <<now, accProjectLink, rfi, submittal, assignments, comments, auditLog,
          statusHistory, last, transition, syncLog, syncCursor,
          ingestedItem, runs>>

Table(m) == IF m = "RFI" THEN rfi ELSE submittal

\* f with the columns of `data` written (data wins)
ApplyUpdate(row, data) == data @@ row

\* a column that prisma leaves out of the write when the value is undefined
Opt(name, v) == IF v = UNDEF THEN Empty ELSE (name :> v)

\* -------------------------------------------------------- Hash/Diff engine
\* faulty variant: the time of the last external update is not hashed
hashAccDataWithoutUpdatedAt(data) ==
  <<"sha256", data.status, data.dueDate, data.title, data.description,
    data.priority, data.assignedTo>>

\* sha256 over JSON.stringify of the projection; the digest is modelled by
\* the projection itself (sha256 taken collision free).
hashAccData(data) ==
  <<"sha256", data.status, data.dueDate, data.title, data.description,
    data.priority, data.assignedTo, data.updatedAt>>

\* faulty variant: a changed title is not itemized
detectChangesWithoutTitle(existing, accData) ==
  LET existingDueDate == IF existing.accDueDate = NoTime THEN UndefTime
                         ELSE existing.accDueDate
  IN  (IF existing.accStatus # accData.status
         THEN ("status" :> [old |-> existing.accStatus, new |-> accData.status])
         ELSE Empty)
      @@
      (IF existingDueDate # accData.dueDate
         THEN ("dueDate" :> [old |-> existingDueDate, new |-> accData.dueDate])
         ELSE Empty)
      @@
      (IF existing.priority # accData.priority
         THEN ("priority" :> [old |-> existing.priority, new |-> accData.priority])
         ELSE Empty)

detectChanges(existing, accData) ==
  LET existingDueDate == IF existing.accDueDate = NoTime THEN UndefTime
                         ELSE existing.accDueDate
      newDueDate == IF accData.dueDate = NoTime THEN NoTime
                    ELSE accData.dueDate
  IN  (IF existing.accStatus # accData.status
         THEN ("status" :> [old |-> existing.accStatus, new |-> accData.status])
         ELSE Empty)
      @@
      (IF existing.title # accData.title
         THEN ("title" :> [old |-> existing.title, new |-> accData.title])
         ELSE Empty)
      @@
      (IF existingDueDate # newDueDate
         THEN ("dueDate" :> [old |-> existingDueDate, new |-> newDueDate])
         ELSE Empty)
      @@
      (IF existing.priority # accData.priority
         THEN ("priority" :> [old |-> existing.priority, new |-> accData.priority])
         ELSE Empty)

\* JSON.stringify of an object: a key whose value is undefined is dropped
\* (stringKeys are the keys whose values are strings and may be undefined)
JsonStringify(obj, stringKeys) ==
  <<"json", [k \in {f \in DOMAIN obj : f \in stringKeys => obj[f] # UNDEF}
               |-> obj[k]]>>

\* a null String? column holding JSON
NullJson == <<>>

\* JSON.parse(s || '{}')
JsonParse(s) == IF s = NullJson THEN Empty ELSE s[2]

\* obj.k of a parsed object: undefined when the key is absent
Get(obj, k) == IF k \in DOMAIN obj THEN obj[k] ELSE UNDEF

\* the JavaScript `v || d` on strings
OrElse(v, d) == IF v \in {UNDEF, NULL, ""} THEN d ELSE v

\* ------------------------------------------------------ Merge/Upsert engine
\* Column defaults of the manual-response fields of both tables.
ManualResponseDefaults ==
  [hasManualResponse |-> FALSE, manualResponseDetectedAt |-> NoTime,
   manualResponseData |-> NullJson, manualResponseConfirmedBy |-> NULL,
   manualResponseConfirmedAt |-> NoTime]

\* Column defaults of the Rfi / Submittal tables (prisma schema).
RecordDefaults ==
  ManualResponseDefaults @@
  [title |-> NULL, discipline |-> NULL, specSection |-> NULL,
   packageNumber |-> NULL, accStatus |-> NULL, priority |-> NULL,
   accAssignedTo |-> <<>>, accDueDate |-> NoTime, accDescription |-> NULL,
   accUpdatedAt |-> NULL, accDataHash |-> <<>>,
   firstSeenAt |-> NoTime, lastSeenAt |-> NoTime,
   hasUnacknowledgedChange |-> FALSE, lastAccChangeAt |-> NoTime,
   changesSummary |-> NullJson,
   internalStatus |-> "UNASSIGNED", responseStatus |-> NULL,
   responseText |-> NULL, responseSentAt |-> NoTime,
   responseSentBy |-> NULL, reviewDeadline |-> NoTime,
   qcDeadline |-> NoTime]

\* faulty variant: the stored hash is tested for presence, not compared
HashPresent(existing, acc) == existing.accDataHash # <<>>

\* `existing.accDataHash !== accDataHash`
HashChanged(existing, acc) == existing.accDataHash # hashAccData(acc)

\* `acc.response && acc.response.text && !existing.responseSentAt`
ManualResponseDetected(existing, acc) ==
  /\ \E r \in acc.response : r.text \notin {UNDEF, NULL, ""}
  /\ existing.responseSentAt = NoTime

\* the captured snapshot of the external response
ManualResponseData(acc, t) ==
  LET r == CHOOSE r \in acc.response : TRUE
  IN  JsonStringify(
        [status |-> OrElse(r.status, acc.status), text |-> r.text,
         respondedBy |-> r.respondedBy, respondedAt |-> r.respondedAt,
         detectedAt |-> t],
        {"status", "text", "respondedBy", "respondedAt"})

\* faulty variant: the merge also derives the internal status from the
\* external one
SyncedColumnsAndStatus(acc) ==
  Opt("accStatus", acc.status) @@ Opt("priority", acc.priority)
  @@ Opt("accDescription", acc.description)
  @@ Opt("accUpdatedAt", acc.updatedAt)
  @@ [accAssignedTo |-> acc.assignedTo, accDueDate |-> acc.dueDate,
      accDataHash |-> <<"sha256", acc.status, acc.dueDate, acc.title,
                        acc.description, acc.priority, acc.assignedTo,
                        acc.updatedAt>>,
      internalStatus |-> IF acc.status = "closed" THEN "CLOSED"
                         ELSE "UNASSIGNED"]

\* the columns written by both branches of the upsert
SyncedColumns(acc) ==
  Opt("accStatus", acc.status) @@ Opt("priority", acc.priority)
  @@ Opt("accDescription", acc.description)
  @@ Opt("accUpdatedAt", acc.updatedAt)
  @@ [accAssignedTo |-> acc.assignedTo, accDueDate |-> acc.dueDate,
      accDataHash |-> hashAccData(acc)]

\* faulty variant: a detected response is flagged, its payload not stored
ChangeColumnsFlagOnly(existing, acc, t) ==
  [hasUnacknowledgedChange |-> existing.accDataHash # hashAccData(acc),
   lastSeenAt |-> t]
  @@ (IF existing.accDataHash # hashAccData(acc)
        THEN [lastAccChangeAt |-> t,
              changesSummary |->
                JsonStringify(detectChanges(existing, acc), {})]
        ELSE Empty)
  @@ (IF ManualResponseDetected(existing, acc)
        THEN [hasManualResponse |-> TRUE]
        ELSE Empty)

\* the sync-metadata columns of the `update:` branch
ChangeColumns(existing, acc, t) ==
  LET hasUnacknowledgedChange == HashChanged(existing, acc)
      hasManualResponse == ManualResponseDetected(existing, acc)
  IN  [hasUnacknowledgedChange |-> hasUnacknowledgedChange, lastSeenAt |-> t]
      @@ (IF hasUnacknowledgedChange
            THEN [lastAccChangeAt |-> t,
                  changesSummary |->
                    JsonStringify(detectChanges(existing, acc), {})]
            ELSE Empty)
      @@ (IF hasManualResponse
            THEN [hasManualResponse |-> TRUE, manualResponseDetectedAt |-> t,
                  manualResponseData |-> ManualResponseData(acc, t)]
            ELSE Empty)

RfiCreateData(acc, t) ==
  [title |-> OrElse(acc.title, "Untitled RFI"),
   firstSeenAt |-> t, lastSeenAt |-> t]
  @@ Opt("discipline", acc.discipline) @@ SyncedColumns(acc)

RfiUpdateData(existing, acc, t) ==
  [title |-> OrElse(acc.title, "Untitled RFI")]
  @@ Opt("discipline", acc.discipline) @@ SyncedColumns(acc)
  @@ ChangeColumns(existing, acc, t)

SubmittalCreateData(acc, t) ==
  [title |-> OrElse(acc.title, "Untitled Submittal"),
   firstSeenAt |-> t, lastSeenAt |-> t]
  @@ Opt("specSection", acc.specSection)
  @@ Opt("packageNumber", acc.packageNumber) @@ SyncedColumns(acc)

SubmittalUpdateData(existing, acc, t) ==
  [title |-> OrElse(acc.title, "Untitled Submittal")]
  @@ Opt("specSection", acc.specSection)
  @@ Opt("packageNumber", acc.packageNumber) @@ SyncedColumns(acc)
  @@ ChangeColumns(existing, acc, t)

\* the StatusHistory row written after a merge that detected a change
SyncHistoryEntry(m, key, existing, acc) ==
  [module |-> m, id |-> key, fieldName |-> "accData",
   oldValue |-> existing.accStatus, newValue |-> acc.status,
   changedBy |-> UNDEF, changeReason |-> "ACC sync detected change"]

\* what a call reports: its arguments, the error it threw (none when it
\* returned), the calls it made to the external platform and file share,
\* and for a send that entered its guarded block the request and the fault
Outcome(op, m, key, user, error, calls) ==
  [op |-> op, module |-> m, id |-> key, user |-> user, error |-> error,
   calls |-> calls, request |-> <<>>]

NoError == <<>>
Err(msg) == <<msg>>

\* a call that threw before its first write
Rejected(op, m, key, user, msg) ==
  /\ last' = Outcome(op, m, key, user, Err(msg), <<>>)
  /\ UNCHANGED <<transition, syncLog, syncCursor, ingestedItem, runs,
                 now, accProjectLink, rfi, submittal, assignments, comments,
                 auditLog, statusHistory>>

\* The links of the deployment and the project each of them belongs to:
\* one project may aggregate several external links.
LinkProject == [L1 |-> "P1", L2 |-> "P1", L3 |-> "P2"]

\* faulty variant: records identified per internal project
RecordKeyPerProject(link, accId) == <<LinkProject[link], accId>>

\* the compound key accProjectLinkId_accRfiId / _accSubmittalId of the
\* lookup and of the upsert
RecordKey(link, accId) == <<link, accId>>

\* table m with row `key` replaced
WriteRow(m, key, row) ==
  /\ rfi' = IF m = "RFI" THEN [rfi EXCEPT ![key] = row] ELSE rfi
  /\ submittal' = IF m = "SUBMITTAL" THEN [submittal EXCEPT ![key] = row]
                  ELSE submittal

processRfi(link, accRfi) ==
  LET key == RecordKey(link, accRfi.id)
      isExisting == key \in DOMAIN rfi
  IN  /\ now < MaxTime
      /\ rfi' = (key :> (IF isExisting
                           THEN ApplyUpdate(rfi[key],
                                  RfiUpdateData(rfi[key], accRfi, now))
                           ELSE ApplyUpdate(RecordDefaults,
                                  RfiCreateData(accRfi, now))))
                @@ rfi
      /\ statusHistory' =
           IF isExisting /\ HashChanged(rfi[key], accRfi)
             THEN Append(statusHistory,
                         SyncHistoryEntry("RFI", key, rfi[key], accRfi))
             ELSE statusHistory
      /\ last' = Outcome("sync", "RFI", key, "sync", NoError, <<>>)
      /\ now' = now + 1
      /\ UNCHANGED <<transition,
                     accProjectLink, submittal, assignments, comments,
                     auditLog>>

processSubmittal(link, accSubmittal) ==
  LET key == RecordKey(link, accSubmittal.id)
      isExisting == key \in DOMAIN submittal
  IN  /\ now < MaxTime
      /\ submittal' =
           (key :> (IF isExisting
                      THEN ApplyUpdate(submittal[key],
                             SubmittalUpdateData(submittal[key],
                                                 accSubmittal, now))
                      ELSE ApplyUpdate(RecordDefaults,
                             SubmittalCreateData(accSubmittal, now))))
           @@ submittal
      /\ statusHistory' =
           IF isExisting /\ HashChanged(submittal[key], accSubmittal)
             THEN Append(statusHistory,
                         SyncHistoryEntry("SUBMITTAL", key, submittal[key],
                                          accSubmittal))
             ELSE statusHistory
      /\ last' = Outcome("sync", "SUBMITTAL", key, "sync", NoError, <<>>)
      /\ now' = now + 1
      /\ UNCHANGED <<transition,
                     accProjectLink, rfi, assignments, comments, auditLog>>

\* the item loops of syncRfis / syncSubmittals, entered by syncProject for
\* the modules the link has switched on
syncRfis(link, accRfi) ==
  /\ accProjectLink[link].syncRfis
  /\ processRfi(link, accRfi)
  /\ UNCHANGED <<syncLog, syncCursor, ingestedItem, runs>>

syncSubmittals(link, accSubmittal) ==
  /\ accProjectLink[link].syncSubmittals
  /\ processSubmittal(link, accSubmittal)
  /\ UNCHANGED <<syncLog, syncCursor, ingestedItem, runs>>

\* ----------------------------------------------------- acknowledge change
\* prisma.update({where: {id}}) throws when the row does not exist
acknowledgeAccChanges(m, key, userId) ==
  IF key \notin DOMAIN Table(m)
    THEN Rejected("acknowledge", m, key, userId, "Record to update not found")
    ELSE /\ now < MaxTime
         /\ WriteRow(m, key,
                     ApplyUpdate(Table(m)[key],
                                 [hasUnacknowledgedChange |-> FALSE]))
         /\ last' = Outcome("acknowledge", m, key, userId, NoError, <<>>)
         /\ now' = now + 1
         /\ UNCHANGED <<transition, syncLog, syncCursor, ingestedItem, runs,
                        accProjectLink, assignments, comments, auditLog,
                        statusHistory>>

\* -------------------------------------------------- workflow: update, assign
\* project.deadlineRules: null, so the default percentages apply
DeadlineRules == Empty
DefaultReviewPercent == 50
DefaultQcPercent == 75

ToLowerCase(str) == IF str = "High" THEN "high" ELSE str

\* rules[priority].pct || default
calculateInternalDeadlines(rules, accDueDate, priority, t) ==
  LET p == ToLowerCase(priority)
      hasRule == priority # NULL /\ p \in DOMAIN rules
      reviewPercent == IF hasRule /\ rules[p].reviewPercent # 0
                         THEN rules[p].reviewPercent
                         ELSE DefaultReviewPercent
      qcPercent == IF hasRule /\ rules[p].qcPercent # 0
                     THEN rules[p].qcPercent
                     ELSE DefaultQcPercent
      totalMs == accDueDate - t
  IN  [reviewDeadline |-> t + ((totalMs * reviewPercent) \div 100),
       qcDeadline |-> t + ((totalMs * qcPercent) \div 100)]

\* the roles of a project membership
Roles == {"PROJECT_ADMIN", "REVIEWER", "QC_REVIEWER", "VIEWER"}

\* the table of canTransitionStatus
transitions ==
  [UNASSIGNED |-> {"ASSIGNED_FOR_REVIEW"},
   ASSIGNED_FOR_REVIEW |-> {"UNDER_REVIEW", "UNASSIGNED"},
   UNDER_REVIEW |-> {"UNDER_QC", "ASSIGNED_FOR_REVIEW"},
   UNDER_QC |-> {"READY_FOR_RESPONSE", "UNDER_REVIEW"},
   READY_FOR_RESPONSE |-> {"SENT_TO_ACC", "UNDER_QC"},
   SENT_TO_ACC |-> {"CLOSED"},
   CLOSED |-> {}]

\* faulty variant: the QC reviewer is not held back
canTransitionStatusForReviewer(currentStatus, newStatus, userRole) ==
  IF currentStatus \notin DOMAIN transitions THEN FALSE
  ELSE IF newStatus \notin transitions[currentStatus] THEN FALSE
  ELSE IF userRole = "VIEWER" THEN FALSE
  ELSE IF userRole = "REVIEWER" /\ newStatus \in {"SENT_TO_ACC", "CLOSED"}
    THEN FALSE
  ELSE TRUE

canTransitionStatus(currentStatus, newStatus, userRole) ==
  LET allowedTransitions ==
        IF currentStatus \in DOMAIN transitions
          THEN transitions[currentStatus] ELSE {}
  IN  IF newStatus \notin allowedTransitions THEN FALSE
      ELSE IF userRole = "VIEWER" THEN FALSE
      ELSE IF userRole = "REVIEWER"
              /\ newStatus \in {"SENT_TO_ACC", "CLOSED"}
        THEN FALSE
      ELSE IF userRole = "QC_REVIEWER"
              /\ newStatus \in {"SENT_TO_ACC", "CLOSED"}
        THEN FALSE
      ELSE TRUE

HistoryEntry(m, key, fieldName, oldValue, newValue, changedBy, reason) ==
  [module |-> m, id |-> key, fieldName |-> fieldName, oldValue |-> oldValue,
   newValue |-> newValue, changedBy |-> changedBy, changeReason |-> reason]

\* updateRfi / updateSubmittal: `data` holds the columns the caller sent
updateRecord(m, key, userId, data) ==
  IF key \notin DOMAIN Table(m)
    THEN Rejected("update", m, key, userId,
                  IF m = "RFI" THEN "RFI not found" ELSE "Submittal not found")
    ELSE
      LET row == Table(m)[key]
          statusEntry ==
            IF "internalStatus" \in DOMAIN data
               /\ data.internalStatus \notin {UNDEF, NULL, ""}
               /\ data.internalStatus # row.internalStatus
              THEN <<HistoryEntry(m, key, "internalStatus", row.internalStatus,
                                  data.internalStatus, userId, UNDEF)>>
              ELSE <<>>
          responseEntry ==
            IF "responseStatus" \in DOMAIN data
               /\ data.responseStatus \notin {UNDEF, NULL, ""}
               /\ data.responseStatus # row.responseStatus
              THEN <<HistoryEntry(m, key, "responseStatus",
                                  OrElse(row.responseStatus, ""),
                                  data.responseStatus, userId, UNDEF)>>
              ELSE <<>>
      IN  /\ now < MaxTime
          /\ WriteRow(m, key, ApplyUpdate(row, data))
          /\ statusHistory' = statusHistory \o statusEntry \o responseEntry
          /\ last' = Outcome("update", m, key, userId, NoError, <<>>)
          /\ now' = now + 1
          /\ UNCHANGED <<transition, syncLog, syncCursor, ingestedItem, runs,
                         accProjectLink, assignments, comments, auditLog>>

\* assignRfi / assignSubmittal; the assignment row refers to the record, so
\* its insert fails when the record does not exist
assignRecord(m, key, userId, role, assignedBy) ==
  IF key \notin DOMAIN Table(m)
    THEN Rejected("assign", m, key, assignedBy,
                  "Foreign key constraint failed")
    ELSE
      LET row == Table(m)[key]
          deadlines == calculateInternalDeadlines(DeadlineRules,
                         row.accDueDate, row.priority, now)
      IN  /\ now < MaxTime
          /\ assignments' = assignments \cup
               {[module |-> m, id |-> key, userId |-> userId, role |-> role,
                 assignedBy |-> assignedBy, isUnread |-> TRUE]}
          /\ WriteRow(m, key,
               IF row.accDueDate # NoTime
                 THEN ApplyUpdate(row,
                        [reviewDeadline |-> deadlines.reviewDeadline,
                         qcDeadline |-> deadlines.qcDeadline,
                         internalStatus |-> "ASSIGNED_FOR_REVIEW"])
                 ELSE row)
          /\ statusHistory' =
               Append(statusHistory,
                      HistoryEntry(m, key, "assignment", UNDEF,
                                   <<role, userId>>, assignedBy, UNDEF))
          /\ last' = Outcome("assign", m, key, assignedBy, NoError, <<>>)
          /\ now' = now + 1
          /\ UNCHANGED <<transition, syncLog, syncCursor, ingestedItem, runs,
                         accProjectLink, comments, auditLog>>

\* rfiService.addComment (RFIs only), without mentions
addComment(key, userId, text) ==
  IF key \notin DOMAIN rfi
    THEN Rejected("comment", "RFI", key, userId,
                  "Foreign key constraint failed")
    ELSE /\ now < MaxTime
         /\ comments' = comments \cup
              {[id |-> key, authorId |-> userId, text |-> text,
                createdAt |-> now]}
         /\ last' = Outcome("comment", "RFI", key, userId, NoError, <<>>)
         /\ now' = now + 1
         /\ UNCHANGED <<transition, syncLog, syncCursor, ingestedItem, runs,
                        accProjectLink, rfi, submittal, assignments, auditLog,
                        statusHistory>>

\* ------------------------------------------- response dispatch, confirmation
\* table ProjectMembership of the one project, filtered by userId
memberships(userId) ==
  CASE userId = "admin" ->
         <<[role |-> "PROJECT_ADMIN", canSendToAcc |-> FALSE]>>
    [] userId = "flagged" ->
         <<[role |-> "REVIEWER", canSendToAcc |-> TRUE]>>
    [] userId = "reviewer" ->
         <<[role |-> "REVIEWER", canSendToAcc |-> FALSE]>>
    [] OTHER -> <<>>

\* faulty variant: any membership passes
isMember(membership) == membership.role \in {"PROJECT_ADMIN", "REVIEWER"}

\* membership.role === 'PROJECT_ADMIN' || membership.canSendToAcc === true
isAdmin(membership) ==
  membership.role = "PROJECT_ADMIN" \/ membership.canSendToAcc = TRUE

\* faulty variant: the text is tested as sent
Untrimmed(str) == str

\* String.prototype.trim on the texts of the model
Trim(str) == IF str \in {" ", "  "} THEN "" ELSE str

\* path.basename
Basename(filePath) == filePath.name

\* the files of the network share a response may select
SharedFiles ==
  <<[dir |-> "share/out", name |-> "a.pdf"],
    [dir |-> "share/out", name |-> "b.pdf"],
    [dir |-> "share/markup", name |-> "c.pdf"],
    [dir |-> "share/markup", name |-> "d.pdf"]>>

Reverse(seq) == [i \in 1 .. Len(seq) |-> seq[Len(seq) + 1 - i]]

\* the selections of up to MaxFiles files, in either order
FileLists ==
  {SubSeq(SharedFiles, 1, n) : n \in 0 .. MaxFiles}
  \cup {Reverse(SubSeq(SharedFiles, 1, n)) : n \in 0 .. MaxFiles}

\* the requests a caller may send: every combination of a missing status,
\* a blank text and an empty selection, and the complete requests with
\* every selection
SendDtos ==
  [responseStatus : {UNDEF, "Approved"},
   responseText : {"", " ", "See attached"},
   selectedFilePaths : {l \in FileLists : Len(l) <= 1}]
  \cup
  [responseStatus : {"Approved"}, responseText : {"See attached"},
   selectedFilePaths : FileLists]

\* what the guarded block of send*ResponseToAcc does, in program order:
\* the token, the status push, the response post, per file the read and the
\* upload, then the three local writes
FileSteps(m, key, paths) ==
  [i \in 1 .. 2 * Len(paths) |->
     IF i % 2 = 1
       THEN <<"readFile", paths[(i + 1) \div 2]>>
       ELSE <<"uploadAttachment", m, key[2], Basename(paths[i \div 2])>>]

\* faulty variant: the record is written before the files are uploaded
SendStepsCommitFirst(m, key, data) ==
  <<<<"getValidToken">>,
    <<"updateStatus", m, key[2], data.responseStatus>>,
    <<"postResponse", m, key[2], data.responseText>>,
    <<"record.update">>>>
  \o FileSteps(m, key, data.selectedFilePaths)
  \o <<<<"auditLog.create">>, <<"statusHistory.create">>>>

SendSteps(m, key, data) ==
  <<<<"getValidToken">>,
    <<"updateStatus", m, key[2], data.responseStatus>>,
    <<"postResponse", m, key[2], data.responseText>>>>
  \o FileSteps(m, key, data.selectedFilePaths)
  \o <<<<"record.update">>, <<"auditLog.create">>,
       <<"statusHistory.create">>>>

IsLocalWrite(step) ==
  step[1] \in {"record.update", "auditLog.create", "statusHistory.create"}

\* the error that reaches the outer catch when `step` throws: a failure
\* inside the file loop is replaced by the upload error naming the file
SendError(step) ==
  CASE step[1] = "readFile" -> <<"Failed to upload file", Basename(step[2])>>
    [] step[1] = "uploadAttachment" -> <<"Failed to upload file", step[4]>>
    [] OTHER -> <<"failed", step[1]>>

AuditEntry(userId, action, m, key, details) ==
  [userId |-> userId, action |-> action, entityType |-> m, entityId |-> key,
   details |-> details]

\* faulty variant: the send leaves the internal status alone
SentColumnsKeepingStatus(data, userId, t) ==
  [responseStatus |-> data.responseStatus,
   responseText |-> data.responseText,
   responseSentAt |-> t,
   responseSentBy |-> userId]

\* the columns the record update of a send writes
SentColumns(data, userId, t) ==
  [responseStatus |-> data.responseStatus,
   responseText |-> data.responseText,
   responseSentAt |-> t,
   responseSentBy |-> userId,
   internalStatus |-> "SENT_TO_ACC"]

\* the checks of send*ResponseToAcc before the guarded block: the message of
\* the first one that throws, "" when all pass
SendRejection(m, key, userId, data) ==
  IF key \notin DOMAIN Table(m)
    THEN (IF m = "RFI" THEN "RFI or ACC project link not found"
          ELSE "Submittal or ACC project link not found")
  ELSE IF memberships(userId) = <<>>
    THEN "User is not a member of this project"
  ELSE IF ~isAdmin(memberships(userId)[1])
    THEN "Only project admins are authorized to send responses to ACC"
  ELSE IF data.responseStatus \in {UNDEF, NULL, ""}
    THEN "Response status is required"
  ELSE IF data.responseText \in {UNDEF, NULL, ""}
          \/ Len(Trim(data.responseText)) = 0
    THEN "Response text is required"
  ELSE IF Len(data.selectedFilePaths) = 0
    THEN "At least one file must be selected"
  ELSE ""

\* sendRfiResponseToAcc / sendSubmittalResponseToAcc.  fault = 0: every step
\* succeeds; fault = i: step i of SendSteps throws.
sendResponseToAcc(m, key, userId, data, fault) ==
  IF SendRejection(m, key, userId, data) # ""
    THEN Rejected("send", m, key, userId,
                  SendRejection(m, key, userId, data))
  ELSE
    LET steps == SendSteps(m, key, data)
        done == IF fault = 0 THEN Len(steps) ELSE fault - 1
        did(name) == \E i \in 1 .. done : steps[i][1] = name
        calls == SelectSeq(SubSeq(steps, 1, done),
                           LAMBDA st : ~IsLocalWrite(st))
        row == Table(m)[key]
        sent == AuditEntry(userId, "SEND_TO_ACC", m, key,
                  JsonStringify(
                    [responseStatus |-> data.responseStatus,
                     fileCount |-> Len(data.selectedFilePaths),
                     files |-> [i \in 1 .. Len(data.selectedFilePaths) |->
                                  Basename(data.selectedFilePaths[i])]],
                    {"responseStatus"}))
        failed == AuditEntry(userId, "SEND_TO_ACC_FAILED", m, key,
                    JsonStringify([error |-> SendError(steps[fault])], {}))
    IN  /\ now < MaxTime
        /\ fault \in 0 .. Len(steps)
        /\ WriteRow(m, key,
             IF did("record.update")
               THEN ApplyUpdate(row, SentColumns(data, userId, now))
               ELSE row)
        /\ auditLog' = auditLog
                       \o (IF did("auditLog.create") THEN <<sent>> ELSE <<>>)
                       \o (IF fault # 0 THEN <<failed>> ELSE <<>>)
        /\ statusHistory' =
             IF did("statusHistory.create")
               THEN Append(statusHistory,
                      HistoryEntry(m, key, "responseStatus", UNDEF,
                                   data.responseStatus, userId,
                                   "Official response sent to ACC"))
               ELSE statusHistory
        /\ last' = [Outcome("send", m, key, userId,
                            IF fault = 0 THEN NoError
                            ELSE SendError(steps[fault]), calls)
                      EXCEPT !.request = <<data, fault>>]
        /\ now' = now + 1
        /\ UNCHANGED <<transition, syncLog, syncCursor, ingestedItem, runs,
                       accProjectLink, assignments, comments>>

\* JSON.parse throws on a text that is not JSON
ParseFails(s) == s # NullJson /\ s[1] # "json"

\* faulty variant: a confirmed response can be confirmed again
ConfirmRejectionNoConflict(m, key, userId) ==
  IF key \notin DOMAIN Table(m)
    THEN (IF m = "RFI" THEN "RFI not found" ELSE "Submittal not found")
  ELSE IF memberships(userId) = <<>>
    THEN "User is not a member of this project"
  ELSE IF ~(memberships(userId)[1].role = "PROJECT_ADMIN"
            \/ memberships(userId)[1].canSendToAcc)
    THEN "Only project admins can confirm manual responses"
  ELSE IF ~Table(m)[key].hasManualResponse
    THEN (IF m = "RFI" THEN "RFI does not have a manual response to confirm"
          ELSE "Submittal does not have a manual response to confirm")
  ELSE IF ParseFails(Table(m)[key].manualResponseData)
    THEN "Invalid manual response data"
  ELSE ""

\* faulty variant: a record without a detected response can be confirmed
ConfirmRejectionNoPending(m, key, userId) ==
  IF key \notin DOMAIN Table(m)
    THEN (IF m = "RFI" THEN "RFI not found" ELSE "Submittal not found")
  ELSE IF memberships(userId) = <<>>
    THEN "User is not a member of this project"
  ELSE IF ~(memberships(userId)[1].role = "PROJECT_ADMIN"
            \/ memberships(userId)[1].canSendToAcc)
    THEN "Only project admins can confirm manual responses"
  ELSE IF Table(m)[key].manualResponseConfirmedAt # NoTime
    THEN "Manual response has already been confirmed"
  ELSE IF ParseFails(Table(m)[key].manualResponseData)
    THEN "Invalid manual response data"
  ELSE ""

\* the checks of confirmManual*Response: the message of the first one that
\* throws, "" when all pass
ConfirmRejection(m, key, userId) ==
  IF key \notin DOMAIN Table(m)
    THEN (IF m = "RFI" THEN "RFI not found" ELSE "Submittal not found")
  ELSE IF memberships(userId) = <<>>
    THEN "User is not a member of this project"
  ELSE IF ~isAdmin(memberships(userId)[1])
    THEN "Only project admins can confirm manual responses"
  ELSE IF ~Table(m)[key].hasManualResponse
    THEN (IF m = "RFI" THEN "RFI does not have a manual response to confirm"
          ELSE "Submittal does not have a manual response to confirm")
  ELSE IF Table(m)[key].manualResponseConfirmedAt # NoTime
    THEN "Manual response has already been confirmed"
  ELSE IF ParseFails(Table(m)[key].manualResponseData)
    THEN "Invalid manual response data"
  ELSE ""

\* faulty variant: the confirmation leaves the internal status alone
ConfirmedColumnsKeepingStatus(manualResponse, userId, t) ==
  [manualResponseConfirmedBy |-> userId,
   manualResponseConfirmedAt |-> t]
  @@ Opt("responseStatus", Get(manualResponse, "status"))
  @@ Opt("responseText", Get(manualResponse, "text"))

\* the columns the record update of a confirmation writes
ConfirmedColumns(manualResponse, userId, t) ==
  [manualResponseConfirmedBy |-> userId,
   manualResponseConfirmedAt |-> t,
   internalStatus |-> "CLOSED"]
  @@ Opt("responseStatus", Get(manualResponse, "status"))
  @@ Opt("responseText", Get(manualResponse, "text"))

\* the writes of a confirmation that read `existing` and passed the checks:
\* the record update, the audit entry and the history entry
confirmWrites(m, key, userId, existing) ==
  LET manualResponse == JsonParse(existing.manualResponseData)
  IN  /\ now < MaxTime
      /\ WriteRow(m, key,
           ApplyUpdate(Table(m)[key],
                       ConfirmedColumns(manualResponse, userId, now)))
      /\ auditLog' =
           Append(auditLog,
             AuditEntry(userId, "CONFIRM_MANUAL_RESPONSE", m, key,
               JsonStringify(
                 [manualResponseStatus |-> Get(manualResponse, "status"),
                  respondedBy |-> Get(manualResponse, "respondedBy"),
                  respondedAt |-> Get(manualResponse, "respondedAt"),
                  confirmedAt |-> now],
                 {"manualResponseStatus", "respondedBy", "respondedAt"})))
      /\ statusHistory' =
           Append(statusHistory,
             HistoryEntry(m, key, "internalStatus", existing.internalStatus,
                          "CLOSED", UNDEF,
                          "Manual response confirmed by admin"))
      /\ last' = Outcome("confirm", m, key, userId, NoError, <<>>)
      /\ now' = now + 1
      /\ UNCHANGED <<transition, syncLog, syncCursor, ingestedItem,
                     accProjectLink, assignments, comments>>

\* confirmManualRfiResponse / confirmManualSubmittalResponse, run without
\* another call in between
confirmManualResponse(m, key, userId) ==
  IF ConfirmRejection(m, key, userId) # ""
    THEN Rejected("confirm", m, key, userId, ConfirmRejection(m, key, userId))
    ELSE /\ confirmWrites(m, key, userId, Table(m)[key])
         /\ UNCHANGED runs

\* ------------------------------------------------------- sync orchestrator
\* The callers that can be inside a service at the same time (the
\* scheduled job and a request, or two requests).
Procs == {"a", "b"}

\* the order in which findMany / include return projects and links
ProjectOrder == <<"P1", "P2">>
LinkOrder == <<"L1", "L2", "L3">>

\* the messages of the errors thrown by the token client, the platform and
\* the store; a message is the sequence of its parts
TokenError == <<"Failed to refresh token">>
FetchError == <<"Request failed with status code 500">>
StoreError == <<"Can't reach database server">>
LinkUpdateError == <<"Invalid prisma.accProjectLink.update() invocation">>
LinksNotFound == <<"Project or ACC links not found">>
ForeignKeyError == <<"Foreign key constraint failed">>

\* `RFI ${accRfi.id}: ${message}` / `Submittal ${accSubmittal.id}: ...`
ItemError(m, accId, msg) ==
  <<IF m = "RFI" THEN "RFI" ELSE "Submittal", accId>> \o msg

Range(seq) == {seq[i] : i \in DOMAIN seq}

\* the records of table m that came from a link
RecordsOf(m, link) == {k \in DOMAIN Table(m) : k[1] = link}

\* faulty variant: the store does not keep the relation
NeverReferenced(link) == FALSE

\* The relation of Rfi / Submittal to AccProjectLink (accProjectLinkId is
\* required): the store refuses to delete a link that a record refers to,
\* and to write a record whose link does not exist.
Referenced(link) ==
  \E m \in Modules : \E k \in DOMAIN Table(m) : k[1] = link

LinkExists(link) == link \in DOMAIN accProjectLink

\* the SyncResult a module cycle starts with
NoResult ==
  [itemsProcessed |-> 0, newItems |-> 0, updatedItems |-> 0, errors |-> <<>>]

\* A caller outside the orchestrator. Of a caller inside: the function it
\* entered, the projects and the module cycles it still has to run, its
\* position, the locals of the running cycle, and the trace of what it
\* called (called, planned, started) and of the calls of syncProject that
\* rejected. Of a caller removing a link: the link and the counts it read.
\* Of a caller confirming a response: its arguments and the record it read.
Idle ==
  [op |-> "", triggeredBy |-> "", pc |-> "idle", projects |-> <<>>,
   projectId |-> "", cycles |-> <<>>, logId |-> 0, items |-> <<>>,
   result |-> NoResult, failure |-> <<>>, faults |-> 0, called |-> <<>>,
   rejected |-> <<>>, planned |-> {}, started |-> {}, linkId |-> "",
   rfiCount |-> 0, submittalCount |-> 0, module |-> "", key |-> <<>>,
   userId |-> "", existing |-> Empty]

NoSync ==
  /\ syncLog = <<>>
  /\ syncCursor = Empty
  /\ ingestedItem = <<>>
  /\ runs = [p \in Procs |-> Idle]

\* the rows that leave the orchestrator's tables alone
RecordsUnchanged ==
  UNCHANGED <<now, rfi, submittal, assignments, comments, auditLog,
              statusHistory, last, transition>>

Set(p, fields) == runs' = [runs EXCEPT ![p] = fields @@ runs[p]]

\* an injected failure of the awaited call, within the budget of the run
MayFail(p, fault) == fault => runs[p].faults < MaxFaults

Failed(r) == [faults |-> r.faults + 1]

\* include: { accProjectLinks } of project.findUnique / findMany
LinksOf(projectId) ==
  SelectSeq(LinkOrder,
            LAMBDA l : /\ l \in DOMAIN accProjectLink
                       /\ accProjectLink[l].projectId = projectId)

\* the calls of syncProjectModule made by the loop over the links
RECURSIVE CyclesOf(_)
CyclesOf(links) ==
  IF links = <<>> THEN <<>>
  ELSE (IF accProjectLink[Head(links)].syncRfis
          THEN <<<<Head(links), "RFI">>>> ELSE <<>>)
       \o (IF accProjectLink[Head(links)].syncSubmittals
             THEN <<<<Head(links), "SUBMITTAL">>>> ELSE <<>>)
       \o CyclesOf(Tail(links))

\* what the platform lists for the external project of a link: the first
\* link has two requests and a submittal, the second link a request with
\* the external id of one of the first, the third nothing
Listed(link, m) ==
  IF link = "L3" THEN <<>>
  ELSE IF link = "L1" /\ m = "RFI"
    THEN <<StoredItem, [StoredItem EXCEPT !.id = "X-2"]>>
    ELSE <<StoredItem>>

\* the call of syncProject that is running ends: the loop of
\* syncAllProjects goes on to the next project, a direct call is over
NextProject(r) ==
  IF r.projects = <<>>
    THEN [pc |-> "done", cycles |-> <<>>]
    ELSE [pc |-> "project", projectId |-> Head(r.projects),
          projects |-> Tail(r.projects), cycles |-> <<>>,
          called |-> Append(r.called, Head(r.projects))]

\* an exception leaves syncProject: syncAllProjects catches and logs it
Rejects(r) == [rejected |-> Append(r.rejected, r.projectId)] @@ NextProject(r)

\* syncProjectModule returned: the loop goes on to the next cycle, and to
\* project.update after the last one
NextCycle(r) ==
  IF Tail(r.cycles) = <<>>
    THEN [pc |-> "stamp", cycles |-> <<>>]
    ELSE [pc |-> "create", cycles |-> Tail(r.cycles)]

\* an exception thrown inside the try block of syncProjectModule
Catch(msg) == [pc |-> "failLog", failure |-> msg]

syncAllProjects(p, triggeredBy) ==
  LET projects == SelectSeq(ProjectOrder, LAMBDA id : LinksOf(id) # <<>>)
  IN  /\ runs[p].pc = "idle"
      /\ Set(p, NextProject([runs[p] EXCEPT !.projects = projects])
                @@ [op |-> "syncAllProjects", triggeredBy |-> triggeredBy])
      /\ RecordsUnchanged
      /\ UNCHANGED <<accProjectLink, syncLog, syncCursor, ingestedItem>>

syncProject(p, projectId, triggeredBy) ==
  /\ runs[p].pc = "idle"
  /\ Set(p, [op |-> "syncProject", triggeredBy |-> triggeredBy,
             pc |-> "project", projectId |-> projectId,
             called |-> <<projectId>>])
  /\ RecordsUnchanged
  /\ UNCHANGED <<accProjectLink, syncLog, syncCursor, ingestedItem>>

\* syncProject: project.findUnique and the list of the cycles to run
loadProject(p, fault) ==
  LET r == runs[p]
      links == LinksOf(r.projectId)
      cycles == CyclesOf(links)
  IN  /\ r.pc = "project"
      /\ MayFail(p, fault)
      /\ Set(p, IF fault THEN Failed(r) @@ Rejects(r)
                ELSE IF links = <<>> THEN NextProject(r)
                ELSE [planned |-> r.planned \cup Range(cycles)]
                     @@ (IF cycles = <<>> THEN [pc |-> "stamp"]
                         ELSE [pc |-> "create", cycles |-> cycles]))
      /\ RecordsUnchanged
      /\ UNCHANGED <<accProjectLink, syncLog, syncCursor, ingestedItem>>

\* syncProjectModule: syncLog.create, before the try block
createSyncLog(p, fault) ==
  LET r == runs[p]
      cycle == Head(r.cycles)
      started == [started |-> r.started \cup {cycle}]
  IN  /\ r.pc = "create"
      /\ MayFail(p, fault)
      /\ IF fault
           THEN /\ Set(p, started @@ Failed(r) @@ Rejects(r))
                /\ UNCHANGED syncLog
           ELSE /\ syncLog' =
                     Append(syncLog,
                            [projectId |-> r.projectId, module |-> cycle[2],
                             status |-> "STARTED",
                             triggeredBy |-> r.triggeredBy,
                             itemsProcessed |-> 0, newItems |-> 0,
                             updatedItems |-> 0, errors |-> NullJson])
                /\ Set(p, started
                          @@ [pc |-> "load", logId |-> Len(syncLog) + 1,
                              items |-> <<>>, result |-> NoResult,
                              failure |-> <<>>])
      /\ RecordsUnchanged
      /\ UNCHANGED <<accProjectLink, syncCursor, ingestedItem>>

\* project.findUnique with the link of the cycle, syncCursor.findUnique
loadLink(p, fault) ==
  LET r == runs[p]
      link == Head(r.cycles)[1]
  IN  /\ r.pc = "load"
      /\ MayFail(p, fault)
      /\ Set(p, IF fault THEN Failed(r) @@ Catch(StoreError)
                ELSE IF link \notin Range(LinksOf(r.projectId))
                  THEN Catch(LinksNotFound)
                ELSE [pc |-> "token"])
      /\ RecordsUnchanged
      /\ UNCHANGED <<accProjectLink, syncLog, syncCursor, ingestedItem>>

\* syncRfis / syncSubmittals: accClient.getValidToken
getValidToken(p, fault) ==
  LET r == runs[p]
  IN  /\ r.pc = "token"
      /\ MayFail(p, fault)
      /\ Set(p, IF fault THEN Failed(r) @@ Catch(TokenError)
                ELSE [pc |-> "fetch"])
      /\ RecordsUnchanged
      /\ UNCHANGED <<accProjectLink, syncLog, syncCursor, ingestedItem>>

\* accClient.listRFIs / listSubmittals
listItems(p, fault) ==
  LET r == runs[p]
      items == Listed(Head(r.cycles)[1], Head(r.cycles)[2])
  IN  /\ r.pc = "fetch"
      /\ MayFail(p, fault)
      /\ Set(p, IF fault THEN Failed(r) @@ Catch(FetchError)
                ELSE [items |-> items,
                      pc |-> IF items = <<>> THEN "cursor" ELSE "item"])
      /\ RecordsUnchanged
      /\ UNCHANGED <<accProjectLink, syncLog, syncCursor, ingestedItem>>

\* one turn of the item loop: processRfi / processSubmittal inside its own
\* try block; a record of a link that is gone violates the foreign key
processItem(p, fault) ==
  LET r == runs[p]
      link == Head(r.cycles)[1]
      m == Head(r.cycles)[2]
      item == Head(r.items)
      isNew == RecordKey(link, item.id) \notin DOMAIN Table(m)
      rest == [items |-> Tail(r.items),
               pc |-> IF Tail(r.items) = <<>> THEN "cursor" ELSE "item"]
      counted == [r.result EXCEPT !.itemsProcessed = @ + 1]
  IN  /\ r.pc = "item"
      /\ MayFail(p, fault)
      /\ IF fault \/ ~ LinkExists(link)
           THEN /\ Set(p, rest
                          @@ [result |->
                                [counted EXCEPT !.errors =
                                   Append(@, ItemError(m, item.id,
                                            IF fault THEN StoreError
                                            ELSE ForeignKeyError))],
                              faults |-> r.faults + (IF fault THEN 1 ELSE 0)])
                /\ RecordsUnchanged
                /\ UNCHANGED accProjectLink
           ELSE /\ IF m = "RFI" THEN processRfi(link, item)
                   ELSE processSubmittal(link, item)
                /\ Set(p, rest
                          @@ [result |->
                                IF isNew
                                  THEN [counted EXCEPT !.newItems = @ + 1]
                                  ELSE [counted EXCEPT
                                          !.updatedItems = @ + 1]])
      /\ UNCHANGED <<syncLog, syncCursor, ingestedItem>>

\* syncCursor.upsert
upsertCursor(p, fault) ==
  LET r == runs[p]
  IN  /\ r.pc = "cursor"
      /\ MayFail(p, fault)
      /\ IF fault
           THEN /\ Set(p, Failed(r) @@ Catch(StoreError))
                /\ UNCHANGED syncCursor
           ELSE /\ syncCursor' =
                     (<<r.projectId, Head(r.cycles)[2]>> :> now)
                     @@ syncCursor
                /\ Set(p, [pc |-> "close"])
      /\ RecordsUnchanged
      /\ UNCHANGED <<accProjectLink, syncLog, ingestedItem>>

\* faulty variant: the run log counts the records written, not the items
closeSyncLogCountingWrites(p, fault) ==
  LET r == runs[p]
  IN  /\ r.pc = "close"
      /\ MayFail(p, fault)
      /\ IF fault
           THEN /\ Set(p, Failed(r) @@ Catch(StoreError))
                /\ UNCHANGED syncLog
           ELSE /\ syncLog' =
                     [syncLog EXCEPT ![r.logId] =
                        [status |-> "COMPLETED",
                         itemsProcessed |->
                           r.result.newItems + r.result.updatedItems,
                         newItems |-> r.result.newItems,
                         updatedItems |-> r.result.updatedItems,
                         errors |-> IF Len(r.result.errors) > 0
                                      THEN <<"json", r.result.errors>>
                                      ELSE NullJson] @@ @]
                /\ Set(p, [pc |-> "link"])
      /\ RecordsUnchanged
      /\ UNCHANGED <<accProjectLink, syncCursor, ingestedItem>>

\* syncLog.update at the end of the try block
closeSyncLog(p, fault) ==
  LET r == runs[p]
  IN  /\ r.pc = "close"
      /\ MayFail(p, fault)
      /\ IF fault
           THEN /\ Set(p, Failed(r) @@ Catch(StoreError))
                /\ UNCHANGED syncLog
           ELSE /\ syncLog' =
                     [syncLog EXCEPT ![r.logId] =
                        [status |-> "COMPLETED",
                         itemsProcessed |-> r.result.itemsProcessed,
                         newItems |-> r.result.newItems,
                         updatedItems |-> r.result.updatedItems,
                         errors |-> IF Len(r.result.errors) > 0
                                      THEN <<"json", r.result.errors>>
                                      ELSE NullJson] @@ @]
                /\ Set(p, [pc |-> "link"])
      /\ RecordsUnchanged
      /\ UNCHANGED <<accProjectLink, syncCursor, ingestedItem>>

\* accProjectLink.update({ where: { projectId } }): the selector names the
\* project, not the link of the cycle. It selects a link of the project
\* when the store takes it for a key, and is rejected otherwise.
updateLinkStatus(p, fault) ==
  LET r == runs[p]
      links == LinksOf(r.projectId)
  IN  /\ r.pc = "link"
      /\ MayFail(p, fault)
      /\ IF fault \/ links = <<>>
           THEN /\ Set(p, [faults |-> r.faults + (IF fault THEN 1 ELSE 0)]
                          @@ Catch(LinkUpdateError))
                /\ UNCHANGED accProjectLink
           ELSE /\ \E l \in Range(links) :
                     accProjectLink' =
                       [accProjectLink EXCEPT ![l] =
                          (IF Len(r.result.errors) > 0
                             THEN [lastSyncStatus |-> "failed",
                                   lastSyncError |->
                                     <<"joined", r.result.errors>>]
                             ELSE [lastSyncStatus |-> "success",
                                   lastSyncError |-> NULL]) @@ @]
                /\ Set(p, NextCycle(r))
      /\ RecordsUnchanged
      /\ UNCHANGED <<syncLog, syncCursor, ingestedItem>>

\* the catch block: syncLog.update
failSyncLog(p, fault) ==
  LET r == runs[p]
  IN  /\ r.pc = "failLog"
      /\ MayFail(p, fault)
      /\ IF fault
           THEN /\ Set(p, Failed(r) @@ Rejects(r))
                /\ UNCHANGED syncLog
           ELSE /\ syncLog' =
                     [syncLog EXCEPT ![r.logId] =
                        [status |-> "FAILED",
                         errors |-> <<"json", <<r.failure>>>>] @@ @]
                /\ Set(p, [pc |-> "failLink"])
      /\ RecordsUnchanged
      /\ UNCHANGED <<accProjectLink, syncCursor, ingestedItem>>

\* the catch block: accProjectLink.update({ where: { projectId } })
failLinkStatus(p, fault) ==
  LET r == runs[p]
      links == LinksOf(r.projectId)
  IN  /\ r.pc = "failLink"
      /\ MayFail(p, fault)
      /\ IF fault \/ links = <<>>
           THEN /\ Set(p, [faults |-> r.faults + (IF fault THEN 1 ELSE 0)]
                          @@ Rejects(r))
                /\ UNCHANGED accProjectLink
           ELSE /\ \E l \in Range(links) :
                     accProjectLink' =
                       [accProjectLink EXCEPT ![l] =
                          [lastSyncStatus |-> "failed",
                           lastSyncError |-> r.failure] @@ @]
                /\ Set(p, NextCycle(r))
      /\ RecordsUnchanged
      /\ UNCHANGED <<syncLog, syncCursor, ingestedItem>>

\* syncProject: project.update({ lastSyncAt }) after the loop
stampProject(p, fault) ==
  LET r == runs[p]
  IN  /\ r.pc = "stamp"
      /\ MayFail(p, fault)
      /\ Set(p, IF fault THEN Failed(r) @@ Rejects(r) ELSE NextProject(r))
      /\ RecordsUnchanged
      /\ UNCHANGED <<accProjectLink, syncLog, syncCursor, ingestedItem>>

\* --------------------------------------------------------- link removal
CannotRemove == <<"Cannot remove ACC project link">>
NothingToDelete == <<"Record to delete does not exist">>

\* removeAccProjectLink, up to its first await
removeAccProjectLink(p, linkId) ==
  /\ runs[p].pc = "idle"
  /\ Set(p, [op |-> "removeAccProjectLink", pc |-> "countRfis",
             linkId |-> linkId])
  /\ RecordsUnchanged
  /\ UNCHANGED <<accProjectLink, syncLog, syncCursor, ingestedItem>>

\* rfi.count({ where: { accProjectLinkId } })
countRfis(p) ==
  LET r == runs[p]
  IN  /\ r.pc = "countRfis"
      /\ Set(p, [pc |-> "countSubmittals",
                 rfiCount |-> Cardinality(RecordsOf("RFI", r.linkId))])
      /\ RecordsUnchanged
      /\ UNCHANGED <<accProjectLink, syncLog, syncCursor, ingestedItem>>

\* submittal.count and the test of the two counts
countSubmittals(p) ==
  LET r == runs[p]
      submittalCount == Cardinality(RecordsOf("SUBMITTAL", r.linkId))
  IN  /\ r.pc = "countSubmittals"
      /\ Set(p, [submittalCount |-> submittalCount]
                @@ (IF r.rfiCount > 0 \/ submittalCount > 0
                      THEN [pc |-> "done", failure |-> CannotRemove]
                      ELSE [pc |-> "delete"]))
      /\ RecordsUnchanged
      /\ UNCHANGED <<accProjectLink, syncLog, syncCursor, ingestedItem>>

\* accProjectLink.delete({ where: { id } })
deleteLink(p) ==
  LET r == runs[p]
  IN  /\ r.pc = "delete"
      /\ IF ~ LinkExists(r.linkId)
           THEN /\ Set(p, [pc |-> "done", failure |-> NothingToDelete])
                /\ UNCHANGED accProjectLink
           ELSE IF Referenced(r.linkId)
             THEN /\ Set(p, [pc |-> "done", failure |-> ForeignKeyError])
                  /\ UNCHANGED accProjectLink
             ELSE /\ accProjectLink' =
                       [l \in DOMAIN accProjectLink \ {r.linkId} |->
                          accProjectLink[l]]
                  /\ Set(p, [pc |-> "done"])
      /\ RecordsUnchanged
      /\ UNCHANGED <<syncLog, syncCursor, ingestedItem>>

\* ------------------------------------------------- pending confirmations
\* orderBy: { manualResponseDetectedAt: 'desc' }
RECURSIVE OrderByDetectedAtDesc(_, _)
OrderByDetectedAtDesc(keys, rows) ==
  IF keys = {} THEN <<>>
  ELSE LET first == CHOOSE k \in keys : \A o \in keys :
                      rows[k].manualResponseDetectedAt
                        >= rows[o].manualResponseDetectedAt
       IN  <<first>> \o OrderByDetectedAtDesc(keys \ {first}, rows)

\* faulty variant: confirmed records stay in the list
listWithDetectedResponses(m, projectId) ==
  OrderByDetectedAtDesc(
    {k \in DOMAIN Table(m) :
       /\ LinkProject[k[1]] = projectId
       /\ Table(m)[k].hasManualResponse},
    Table(m))

\* listRfisWithManualResponses / listSubmittalsWithManualResponses: the
\* keys of the rows returned, in the order returned (projectId is the
\* project of the link the record was created under)
listWithManualResponses(m, projectId) ==
  OrderByDetectedAtDesc(
    {k \in DOMAIN Table(m) :
       /\ LinkProject[k[1]] = projectId
       /\ Table(m)[k].hasManualResponse
       /\ Table(m)[k].manualResponseConfirmedAt = NoTime},
    Table(m))

\* ------------------------------------------------- concurrent confirmation
\* confirmManual*Response up to its first write: the record is read and the
\* checks are made on what was read
readForConfirm(p, m, key, userId) ==
  /\ runs[p].pc = "idle"
  /\ IF ConfirmRejection(m, key, userId) # ""
       THEN /\ last' = Outcome("confirm", m, key, userId,
                               Err(ConfirmRejection(m, key, userId)), <<>>)
            /\ Set(p, [op |-> "confirmManualResponse", pc |-> "done",
                       module |-> m, key |-> key, userId |-> userId,
                       failure |-> <<ConfirmRejection(m, key, userId)>>])
       ELSE /\ Set(p, [op |-> "confirmManualResponse", pc |-> "write",
                       module |-> m, key |-> key, userId |-> userId,
                       existing |-> Table(m)[key]])
            /\ UNCHANGED last
  /\ UNCHANGED <<now, accProjectLink, rfi, submittal, assignments, comments,
                 auditLog, statusHistory, transition, syncLog, syncCursor,
                 ingestedItem>>

\* the rest of the call: the writes, computed from the record it read
writeConfirmed(p) ==
  LET r == runs[p]
  IN  /\ r.pc = "write"
      /\ confirmWrites(r.module, r.key, r.userId, r.existing)
      /\ Set(p, [pc |-> "done"])

\* ------------------------------------------------------------ specification
\* no call of canTransitionStatus is under way: the services do not call it
NoTransition ==
  [currentStatus |-> "", newStatus |-> "", userRole |-> "", returned |-> {}]

\* A link syncs one module: the two tables are independent (no call reads
\* or writes both), so a run exercises one of them.
LinkSettings ==
  {[syncRfis |-> TRUE, syncSubmittals |-> FALSE],
   [syncRfis |-> FALSE, syncSubmittals |-> TRUE]}

Init ==
  /\ now = 1
  /\ accProjectLink \in [Links -> LinkSettings]
  /\ rfi = Empty
  /\ submittal = Empty
  /\ assignments = {}
  /\ comments = {}
  /\ auditLog = <<>>
  /\ statusHistory = <<>>
  /\ last = Outcome("init", "RFI", <<"", "">>, "", NoError, <<>>)
  /\ transition = NoTransition
  /\ NoSync

\* the records a caller can name: the ones the lists show
Shown(m) == DOMAIN Table(m)

UpdateDtos ==
  {[internalStatus |-> "UNDER_REVIEW"],
   [responseStatus |-> "Draft", responseText |-> "draft text"]}

\* the platform and the store are healthy: sends run without a fault
ValidDto ==
  [responseStatus |-> "Approved", responseText |-> "See attached",
   selectedFilePaths |-> SubSeq(SharedFiles, 1, 1)]

Next ==
  \/ \E l \in Links, a \in AccItems : syncRfis(l, a)
  \/ \E l \in Links, a \in AccItems : syncSubmittals(l, a)
  \/ \E m \in Modules : \E k \in Shown(m) :
       acknowledgeAccChanges(m, k, "reviewer")
  \/ \E m \in Modules : \E k \in Shown(m), d \in UpdateDtos :
       updateRecord(m, k, "reviewer", d)
  \/ \E m \in Modules : \E k \in Shown(m) :
       assignRecord(m, k, "reviewer", "REVIEWER", "admin")
  \/ \E k \in Shown("RFI") : addComment(k, "reviewer", "note")
  \/ \E m \in Modules : \E k \in Shown(m), u \in Users :
       sendResponseToAcc(m, k, u, ValidDto, 0)
  \/ \E m \in Modules : \E k \in Shown(m), u \in Users :
       confirmManualResponse(m, k, u)

Spec == Init /\ [][Next]_vars

\* The dispatch under faults: every caller, every request, and a fault at
\* any step of the guarded block; the platform lists an item without and
\* one with a response.
DispatchItems ==
  {a \in AccItems :
     /\ a.status = "open"
     /\ \A r \in a.response : r.text = "Approved"}

\* a fault can only hit a call that reaches the guarded block
FaultPoints(m, key, userId, data) ==
  IF SendRejection(m, key, userId, data) # "" THEN {0}
  ELSE 0 .. Len(SendSteps(m, key, data))

\* up to the clock bound every call runs; at the bound, the calls that are
\* rejected before their first write
NextDispatch ==
  \/ /\ now < MaxDispatchTime
     /\ \/ \E l \in Links, a \in DispatchItems : syncRfis(l, a)
        \/ \E l \in Links, a \in DispatchItems : syncSubmittals(l, a)
        \/ \E m \in Modules :
             \E k \in Shown(m), u \in Users, d \in SendDtos :
               \E f \in FaultPoints(m, k, u, d) :
                 sendResponseToAcc(m, k, u, d, f)
        \/ \E m \in Modules : \E k \in Shown(m), u \in Users :
             confirmManualResponse(m, k, u)
  \/ /\ now = MaxDispatchTime
     /\ \/ \E m \in Modules :
             \E k \in Shown(m), u \in Users, d \in SendDtos :
               /\ SendRejection(m, k, u, d) # ""
               /\ sendResponseToAcc(m, k, u, d, 0)
        \/ \E m \in Modules : \E k \in Shown(m), u \in Users :
             /\ ConfirmRejection(m, k, u) # ""
             /\ confirmManualResponse(m, k, u)

SpecDispatch == Init /\ [][NextDispatch]_vars

\* The confirmation over a store that already holds a record.  The column
\* manualResponseData is free text: the sync writes JSON to it, and the
\* confirmation guards against a text that is not (no operation above
\* writes one, so the store starts with it).
CapturedPayload ==
  <<"json", [status |-> "answered", text |-> "Approved",
             respondedBy |-> "ext-user", respondedAt |-> "r1",
             detectedAt |-> 1]>>

CorruptPayload == <<"text", "{\"status\":">>

\* the record as the first sync created it, then without a detected
\* response, or with a readable or an unreadable one, unconfirmed or
\* confirmed by the admin
StoredRows(m) ==
  LET created == ApplyUpdate(RecordDefaults,
                   IF m = "RFI" THEN RfiCreateData(StoredItem, 1)
                   ELSE SubmittalCreateData(StoredItem, 1))
  IN  {created}
      \cup
      {ApplyUpdate(created,
         [hasManualResponse |-> TRUE, manualResponseDetectedAt |-> 1,
          manualResponseData |-> data] @@ confirmation) :
         data \in {CapturedPayload, CorruptPayload},
         confirmation \in
           {Empty,
            [manualResponseConfirmedBy |-> "admin",
             manualResponseConfirmedAt |-> 1,
             internalStatus |-> "CLOSED"]}}

InitStored ==
  /\ now = 2
  /\ accProjectLink \in [Links -> LinkSettings]
  /\ \E row \in StoredRows("RFI") :
       rfi = IF accProjectLink["L1"].syncRfis
               THEN (<<"L1", "X-1">> :> row) ELSE Empty
  /\ \E row \in StoredRows("SUBMITTAL") :
       submittal = IF accProjectLink["L1"].syncSubmittals
                     THEN (<<"L1", "X-1">> :> row) ELSE Empty
  /\ assignments = {}
  /\ comments = {}
  /\ auditLog = <<>>
  /\ statusHistory = <<>>
  /\ last = Outcome("init", "RFI", <<"", "">>, "", NoError, <<>>)
  /\ transition = NoTransition
  /\ NoSync

NextStored ==
  \/ \E l \in Links, a \in AccItems : syncRfis(l, a)
  \/ \E l \in Links, a \in AccItems : syncSubmittals(l, a)
  \/ \E m \in Modules : \E k \in Shown(m), u \in Users :
       confirmManualResponse(m, k, u)

SpecStored == InitStored /\ [][NextStored]_vars

\* The transition check on its own: any status, also one the table does
\* not know, and any role.
TransitionStatuses == InternalStatuses \cup {"ARCHIVED"}

InitTransition ==
  /\ now = 1
  /\ accProjectLink = [l \in Links |-> [syncRfis |-> TRUE,
                                       syncSubmittals |-> TRUE]]
  /\ rfi = Empty
  /\ submittal = Empty
  /\ assignments = {}
  /\ comments = {}
  /\ auditLog = <<>>
  /\ statusHistory = <<>>
  /\ last = Outcome("init", "RFI", <<"", "">>, "", NoError, <<>>)
  /\ transition \in [currentStatus : TransitionStatuses,
                     newStatus : TransitionStatuses,
                     userRole : Roles, returned : {{}}]
  /\ NoSync

checkTransition ==
  /\ transition.returned = {}
  /\ transition' =
       [transition EXCEPT !.returned =
          {canTransitionStatus(transition.currentStatus,
                               transition.newStatus, transition.userRole)}]
  /\ UNCHANGED <<now, accProjectLink, rfi, submittal, assignments, comments,
                 auditLog, statusHistory, last, syncLog, syncCursor,
                 ingestedItem, runs>>

NextTransition == checkTransition

SpecTransition == InitTransition /\ [][NextTransition]_vars

\* The assignment workflow: the platform lists items with and without a
\* due date (`accRfi.dueDate ? new Date(accRfi.dueDate) : null`), and the
\* admin assigns a reviewer or a QC reviewer.
AssignItems ==
  {[a EXCEPT !.dueDate = d] : a \in DispatchItems, d \in {DueDate, NoTime}}

AssignmentRoles == {"REVIEWER", "QC_REVIEWER"}

NextAssign ==
  \/ \E l \in Links, a \in AssignItems : syncRfis(l, a)
  \/ \E l \in Links, a \in AssignItems : syncSubmittals(l, a)
  \/ \E m \in Modules : \E k \in Shown(m), d \in UpdateDtos :
       updateRecord(m, k, "reviewer", d)
  \/ \E m \in Modules : \E k \in Shown(m), role \in AssignmentRoles :
       assignRecord(m, k, "reviewer", role, "admin")

SpecAssign == Init /\ [][NextAssign]_vars

\* The change detection on its own: the platform lists an item whose
\* status, title, description and due date vary from one cycle to the next
\* (the description is part of the fingerprint, not of the summary).
DiffItems ==
  {[a EXCEPT !.status = st, !.title = ti, !.description = de,
             !.dueDate = du] :
     a \in {StoredItem}, st \in AccStatuses, ti \in {"Beam", "Column"},
     de \in {"d1", "d2"}, du \in {DueDate, NoTime}}

NextDiff ==
  \/ \E l \in Links, a \in DiffItems : syncRfis(l, a)
  \/ \E l \in Links, a \in DiffItems : syncSubmittals(l, a)
  \/ \E m \in Modules : \E k \in Shown(m) :
       acknowledgeAccChanges(m, k, "reviewer")

SpecDiff == Init /\ [][NextDiff]_vars

\* Identity of the records: two links of one project list an item with the
\* same external id, open in one cycle and closed in another.
ProjectLinks == {l \in DOMAIN LinkProject : LinkProject[l] = "P1"}

LinkItems == {[StoredItem EXCEPT !.status = st] : st \in AccStatuses}

InitLinks ==
  /\ now = 1
  /\ accProjectLink = [l \in ProjectLinks |-> [syncRfis |-> TRUE,
                                              syncSubmittals |-> TRUE]]
  /\ rfi = Empty
  /\ submittal = Empty
  /\ assignments = {}
  /\ comments = {}
  /\ auditLog = <<>>
  /\ statusHistory = <<>>
  /\ last = Outcome("init", "RFI", <<"", "">>, "", NoError, <<>>)
  /\ transition = NoTransition
  /\ NoSync

NextLinks ==
  \/ \E l \in ProjectLinks, a \in LinkItems : syncRfis(l, a)
  \/ \E l \in ProjectLinks, a \in LinkItems : syncSubmittals(l, a)

SpecLinks == InitLinks /\ [][NextLinks]_vars

\* The orchestrator: one scheduled run over two projects. The first has
\* two links, one of them with both modules switched on; any awaited call
\* may fail.
SyncLinks ==
  [l \in DOMAIN LinkProject |->
     [projectId |-> LinkProject[l], syncRfis |-> TRUE,
      syncSubmittals |-> (l = "L1"), lastSyncStatus |-> NULL,
      lastSyncError |-> NULL]]

InitSync ==
  /\ now = 1
  /\ accProjectLink = SyncLinks
  /\ rfi = Empty
  /\ submittal = Empty
  /\ assignments = {}
  /\ comments = {}
  /\ auditLog = <<>>
  /\ statusHistory = <<>>
  /\ last = Outcome("init", "RFI", <<"", "">>, "", NoError, <<>>)
  /\ transition = NoTransition
  /\ NoSync

NextSync ==
  \/ syncAllProjects("a", "CRON")
  \/ \E fault \in BOOLEAN : loadProject("a", fault)
  \/ \E fault \in BOOLEAN : createSyncLog("a", fault)
  \/ \E fault \in BOOLEAN : loadLink("a", fault)
  \/ \E fault \in BOOLEAN : getValidToken("a", fault)
  \/ \E fault \in BOOLEAN : listItems("a", fault)
  \/ \E fault \in BOOLEAN : processItem("a", fault)
  \/ \E fault \in BOOLEAN : upsertCursor("a", fault)
  \/ \E fault \in BOOLEAN : closeSyncLog("a", fault)
  \/ \E fault \in BOOLEAN : updateLinkStatus("a", fault)
  \/ \E fault \in BOOLEAN : failSyncLog("a", fault)
  \/ \E fault \in BOOLEAN : failLinkStatus("a", fault)
  \/ \E fault \in BOOLEAN : stampProject("a", fault)

SpecSync == InitSync /\ [][NextSync]_vars

\* The scheduled run with every awaited call returning or failing in the
\* end: a caller inside the orchestrator is never suspended forever.
SpecSyncFair == SpecSync /\ WF_vars(NextSync)

\* Overlapping calls: while the scheduled run is under way a request calls
\* syncProject for the same project. Each await is a point where the other
\* caller can run; the token client may fail.
OverlapLinks ==
  [l \in {"L1"} |-> [SyncLinks[l] EXCEPT !.syncSubmittals = FALSE]]

InitOverlap ==
  /\ now = 1
  /\ accProjectLink = OverlapLinks
  /\ rfi = Empty
  /\ submittal = Empty
  /\ assignments = {}
  /\ comments = {}
  /\ auditLog = <<>>
  /\ statusHistory = <<>>
  /\ last = Outcome("init", "RFI", <<"", "">>, "", NoError, <<>>)
  /\ transition = NoTransition
  /\ NoSync

NextOverlap ==
  \/ syncAllProjects("a", "CRON")
  \/ syncProject("b", "P1", "MANUAL")
  \/ \E p \in Procs : loadProject(p, FALSE)
  \/ \E p \in Procs : createSyncLog(p, FALSE)
  \/ \E p \in Procs : loadLink(p, FALSE)
  \/ \E p \in Procs : \E fault \in BOOLEAN : getValidToken(p, fault)
  \/ \E p \in Procs : listItems(p, FALSE)
  \/ \E p \in Procs : processItem(p, FALSE)
  \/ \E p \in Procs : upsertCursor(p, FALSE)
  \/ \E p \in Procs : closeSyncLog(p, FALSE)
  \/ \E p \in Procs : updateLinkStatus(p, FALSE)
  \/ \E p \in Procs : failSyncLog(p, FALSE)
  \/ \E p \in Procs : failLinkStatus(p, FALSE)
  \/ \E p \in Procs : stampProject(p, FALSE)

SpecOverlap == InitOverlap /\ [][NextOverlap]_vars

\* Removal of a link while the scheduled run syncs the projects.
NextRemoval ==
  \/ syncAllProjects("a", "CRON")
  \/ loadProject("a", FALSE)
  \/ createSyncLog("a", FALSE)
  \/ loadLink("a", FALSE)
  \/ \E fault \in BOOLEAN : getValidToken("a", fault)
  \/ listItems("a", FALSE)
  \/ processItem("a", FALSE)
  \/ upsertCursor("a", FALSE)
  \/ closeSyncLog("a", FALSE)
  \/ updateLinkStatus("a", FALSE)
  \/ failSyncLog("a", FALSE)
  \/ failLinkStatus("a", FALSE)
  \/ stampProject("a", FALSE)
  \/ \E l \in DOMAIN SyncLinks : removeAccProjectLink("b", l)
  \/ countRfis("b")
  \/ countSubmittals("b")
  \/ deleteLink("b")

SpecRemoval == InitSync /\ [][NextRemoval]_vars

\* Two requests on a stored record: each confirmation reads the record,
\* then writes; a dispatch of a response runs in between or alone.
NextConcurrent ==
  \/ \E p \in Procs : \E m \in Modules : \E k \in Shown(m) :
       \E u \in {"admin", "reviewer"} : readForConfirm(p, m, k, u)
  \/ \E p \in Procs : writeConfirmed(p)
  \/ \E m \in Modules : \E k \in Shown(m) :
       sendResponseToAcc(m, k, "admin", ValidDto, 0)

SpecConcurrent == InitStored /\ [][NextConcurrent]_vars

\* The list of pending confirmations: two projects hold records created by
\* an earlier cycle, one of them with a response detected since; the
\* platform then lists the items with or without a response, and the admin
\* confirms.
ListLinks == {"L1", "L3"}

ListItems ==
  {[StoredItem EXCEPT !.id = id, !.response = rs] :
     id \in {"X-1", "X-2"},
     rs \in {{}, {CHOOSE r \in AccResponses : r.text = "Approved"}}}

InitList ==
  /\ now = 2
  /\ accProjectLink = [l \in ListLinks |-> [syncRfis |-> TRUE,
                                           syncSubmittals |-> TRUE]]
  /\ rfi = [k \in {<<"L1", "X-1">>, <<"L1", "X-2">>, <<"L3", "X-1">>} |->
              ApplyUpdate(RecordDefaults,
                          (IF k = <<"L1", "X-2">>
                             THEN [hasManualResponse |-> TRUE,
                                   manualResponseDetectedAt |-> 1,
                                   manualResponseData |-> CapturedPayload]
                             ELSE Empty)
                          @@ RfiCreateData([StoredItem EXCEPT !.id = k[2]],
                                           1))]
  /\ submittal = [k \in {<<"L1", "X-1">>} |->
                    ApplyUpdate(RecordDefaults,
                                SubmittalCreateData(StoredItem, 1))]
  /\ assignments = {}
  /\ comments = {}
  /\ auditLog = <<>>
  /\ statusHistory = <<>>
  /\ last = Outcome("init", "RFI", <<"", "">>, "", NoError, <<>>)
  /\ transition = NoTransition
  /\ NoSync

NextList ==
  \/ \E l \in ListLinks, a \in ListItems : syncRfis(l, a)
  \/ \E l \in ListLinks, a \in ListItems : syncSubmittals(l, a)
  \/ \E m \in Modules : \E k \in Shown(m) :
       confirmManualResponse(m, k, "admin")

SpecList == InitList /\ [][NextList]_vars

\* The fingerprint on its own. A payload is the object the client parsed:
\* its properties in the order the platform sent them. The payloads differ
\* from a listed item in up to one field of the projection, in the fields
\* outside of it, and in the order of the properties.
ProjectedFields ==
  {"status", "dueDate", "title", "description", "priority", "assignedTo",
   "updatedAt"}

PropertyOrder ==
  <<"id", "status", "title", "description", "priority", "dueDate",
    "assignedTo", "updatedAt", "discipline", "createdBy",
    "contractorComments", "response">>

\* the items of the projection, one field changed or left out
ProjectionVariants ==
  LET item == [f \in ProjectedFields \cup {"id"} |-> StoredItem[f]]
  IN  {item,
       [item EXCEPT !.status = "closed"],
       [item EXCEPT !.dueDate = DueDate + 1],
       [item EXCEPT !.title = "Column"],
       [item EXCEPT !.description = "d2"],
       [item EXCEPT !.priority = "Low"],
       [item EXCEPT !.assignedTo = <<"sub-2">>],
       [item EXCEPT !.updatedAt = "u2"],
       [f \in DOMAIN item \ {"title"} |-> item[f]],
       [f \in DOMAIN item \ {"priority"} |-> item[f]]}

OtherFields ==
  {Empty,
   [discipline |-> "Structural", createdBy |-> "ext-user"],
   [discipline |-> "Civil", contractorComments |-> "see sketch",
    response |-> "Approved"]}

\* the object with the properties of `fields`, inserted in `order`
ObjectOf(fields, order) ==
  LET keys == SelectSeq(order, LAMBDA k : k \in DOMAIN fields)
  IN  [i \in 1 .. Len(keys) |-> <<keys[i], fields[keys[i]]>>]

Payloads ==
  {ObjectOf(projection @@ other, order) :
     projection \in ProjectionVariants, other \in OtherFields,
     order \in {PropertyOrder, Reverse(PropertyOrder)}}

\* the value read from a property that the object does not have
Undefined(name) ==
  IF name = "dueDate" THEN NoTime
  ELSE IF name = "assignedTo" THEN <<>> ELSE UNDEF

\* data.name
Property(data, name) ==
  IF \E i \in DOMAIN data : data[i][1] = name
    THEN data[CHOOSE i \in DOMAIN data : data[i][1] = name][2]
    ELSE Undefined(name)

\* the reads of hashAccData: data.status ... data.updatedAt
Projection(data) == [f \in ProjectedFields |-> Property(data, f)]

\* hashAccData called on two payloads; the function keeps no state, so a
\* behaviour is one pair of calls
hashPayloads(first, second) ==
  /\ last.op = "init"
  /\ last' = [returned |-> <<hashAccData(Projection(first)),
                             hashAccData(Projection(second))>>]
              @@ [Outcome("hashAccData", "RFI", <<"", "">>, "", NoError,
                          <<>>)
                    EXCEPT !.request = <<first, second>>]
  /\ UNCHANGED <<now, accProjectLink, rfi, submittal, assignments, comments,
                 auditLog, statusHistory, transition, syncLog, syncCursor,
                 ingestedItem,
                 runs>>

NextHash ==
  \E first \in Payloads, second \in Payloads : hashPayloads(first, second)

SpecHash == Init /\ [][NextHash]_vars

\* A dispatch and the cycle after it: the records are stored without a
\* response, the admin sends one (any step of the send may fail), and the
\* next cycle lists the item with the response the send posted.
InitPosted ==
  /\ now = 2
  /\ accProjectLink = [l \in Links |-> [syncRfis |-> TRUE,
                                       syncSubmittals |-> TRUE]]
  /\ rfi = [k \in Ids |-> ApplyUpdate(RecordDefaults,
                                      RfiCreateData(StoredItem, 1))]
  /\ submittal = [k \in Ids |->
                    ApplyUpdate(RecordDefaults,
                                SubmittalCreateData(StoredItem, 1))]
  /\ assignments = {}
  /\ comments = {}
  /\ auditLog = <<>>
  /\ statusHistory = <<>>
  /\ last = Outcome("init", "RFI", <<"", "">>, "", NoError, <<>>)
  /\ transition = NoTransition
  /\ NoSync

\* the send reported by `last` posted its response to the platform
Posted ==
  /\ last.op = "send"
  /\ \E i \in DOMAIN last.calls : last.calls[i][1] = "postResponse"

\* the item of the record as the platform lists it after the post
PostedItem ==
  LET data == last.request[1]
  IN  [StoredItem EXCEPT
         !.id = last.id[2],
         !.response = {[text |-> data.responseText,
                        status |-> data.responseStatus,
                        respondedBy |-> "integration",
                        respondedAt |-> "r3"]}]

\* the cycle that follows the send
syncPosted ==
  /\ Posted
  /\ IF last.module = "RFI" THEN syncRfis(last.id[1], PostedItem)
     ELSE syncSubmittals(last.id[1], PostedItem)

NextPosted ==
  \/ \E m \in Modules : \E k \in Shown(m) :
       \E fault \in 0 .. Len(SendSteps(m, k, ValidDto)) :
         sendResponseToAcc(m, k, "admin", ValidDto, fault)
  \/ syncPosted

SpecPosted == InitPosted /\ [][NextPosted]_vars

\* The deadline calculation on its own: the rules of the project name
\* percentages with reviewPercent <= qcPercent <= 100 for the priority
\* 'high' or the project has no rules, the external due date lies before
\* or after the call, and the record has any priority or none.
DeadlineRuleSets ==
  {Empty}
  \cup {[high |-> [reviewPercent |-> pair[1], qcPercent |-> pair[2]]] :
          pair \in {pc \in {0, 30, 40, 100} \X {0, 30, 40, 70, 100} :
                      pc[1] <= pc[2]}}

DeadlineDueDates == {1, 2, MaxTime, MaxTime + 3, DueDate}

InitDeadline ==
  /\ now \in 1 .. MaxTime
  /\ accProjectLink \in [Links -> LinkSettings]
  /\ rfi = Empty
  /\ submittal = Empty
  /\ assignments = {}
  /\ comments = {}
  /\ auditLog = <<>>
  /\ statusHistory = <<>>
  /\ last = Outcome("init", "RFI", <<"", "">>, "", NoError, <<>>)
  /\ transition = NoTransition
  /\ NoSync

\* one call of calculateInternalDeadlines; the function writes nothing
calculateDeadlines(rules, accDueDate, priority) ==
  /\ last.op = "init"
  /\ last' = [returned |->
                calculateInternalDeadlines(rules, accDueDate, priority, now)]
              @@ [Outcome("calculateInternalDeadlines", "RFI", <<"", "">>,
                          "", NoError, <<>>)
                    EXCEPT !.request = <<rules, accDueDate, priority>>]
  /\ UNCHANGED <<now, accProjectLink, rfi, submittal, assignments, comments,
                 auditLog, statusHistory, transition, syncLog, syncCursor,
                 ingestedItem,
                 runs>>

NextDeadline ==
  \E rules \in DeadlineRuleSets, accDueDate \in DeadlineDueDates,
     priority \in {NULL, "High", "Normal"} :
    calculateDeadlines(rules, accDueDate, priority)

SpecDeadline == InitDeadline /\ [][NextDeadline]_vars

\* ----------------------------------------------------------- polling sync
\* services/syncService.ts keeps one row of IngestedItem per item it has
\* seen. Its processItem is named pollProcessItem here, the orchestrator
\* above having a step of that name.

\* lib/crypto hashData: sha256 of the text, taken collision free
hashData(data) == <<"sha256", data>>

\* the items the platform lists to the poll, in their JSON text
PolledItems ==
  [id : {"id-1"}, externalId : {"E-1", "E-2"}, title : AccTitles,
   status : AccStatuses]

\* faulty variant: the lookup does not tell the modules apart
FindIngestedAnyModule(externalId, module, projectId) ==
  {i \in DOMAIN ingestedItem :
     /\ ingestedItem[i].externalId = externalId
     /\ ingestedItem[i].projectId = projectId}

\* ingestedItem.findUnique({ externalId_module_projectId }): the ids of the
\* rows found
FindIngested(externalId, module, projectId) ==
  {i \in DOMAIN ingestedItem :
     /\ ingestedItem[i].externalId = externalId
     /\ ingestedItem[i].module = module
     /\ ingestedItem[i].projectId = projectId}

\* processItem of the polling sync. The create names no lastSeenAt: the
\* column is empty or set to the time of the insert by its default.
pollProcessItem(projectId, module, item) ==
  LET payloadHash == hashData(item)
      found == FindIngested(item.externalId, module, projectId)
  IN  /\ now < MaxTime
      /\ IF found # {}
           THEN LET id == CHOOSE i \in found : TRUE
                    existing == ingestedItem[id]
                IN  ingestedItem' =
                      [ingestedItem EXCEPT ![id] =
                         (IF existing.payloadHash # payloadHash
                            THEN [payloadHash |-> payloadHash,
                                  lastSeenAt |-> now]
                            ELSE [lastSeenAt |-> now]) @@ @]
           ELSE \E seen \in {NoTime, now} :
                  ingestedItem' =
                    Append(ingestedItem,
                           [externalId |-> item.externalId,
                            module |-> module, projectId |-> projectId,
                            payloadHash |-> payloadHash,
                            firstSeenAt |-> now, lastSeenAt |-> seen])
      /\ last' = [returned |-> found = {}]
                 @@ [Outcome("processItem", module,
                             <<projectId, item.externalId>>, "", NoError,
                             <<>>)
                       EXCEPT !.request = <<projectId, module, item>>]
      /\ now' = now + 1
      /\ UNCHANGED <<accProjectLink, rfi, submittal, assignments, comments,
                     auditLog, statusHistory, transition, syncLog,
                     syncCursor, runs>>

\* the runs of the poll: any listed item of either module of two projects,
\* in any order and any number of times
NextPoll ==
  \E projectId \in Range(ProjectOrder), module \in {"rfi", "submittal"},
     item \in PolledItems :
    pollProcessItem(projectId, module, item)

SpecPoll == InitSync /\ [][NextPoll]_vars

\* ------------------------------------------------------------- properties
TableNext(m) == IF m = "RFI" THEN rfi' ELSE submittal'

\* the step merges item `a` of link `l` into table m
SyncOf(m, l, a) ==
  /\ last'.module = m
  /\ IF m = "RFI" THEN syncRfis(l, a) ELSE syncSubmittals(l, a)

\* the step is a send that got past its checks
PassedSend == last'.op = "send" /\ last'.request # <<>>

\* the step is the send of request `d` by `u` for record k of table m, past
\* the authorization and validation checks, with fault f
SendOf(m, k, u, d, f) ==
  /\ SendRejection(m, k, u, d) = ""
  /\ sendResponseToAcc(m, k, u, d, f)

HasResponseText(a) == \E r \in a.response : r.text # ""

InternalColumns ==
  {"internalStatus", "responseStatus", "responseText", "responseSentAt",
   "responseSentBy", "reviewDeadline", "qcDeadline"}

ResponseColumns ==
  {"responseStatus", "responseText", "responseSentAt", "responseSentBy",
   "internalStatus"}

ManualResponseColumns ==
  {"manualResponseData", "manualResponseDetectedAt",
   "manualResponseConfirmedAt", "manualResponseConfirmedBy"}

\* C1: a sync merge leaves the internally-owned columns of every existing
\* record (internalStatus, responseStatus, responseText, responseSentAt,
\* responseSentBy, reviewDeadline, qcDeadline), the assignments and the
\* comments exactly as they were, whatever the users and earlier sync
\* cycles did before.
SyncKeepsInternalFields ==
  [][last'.op = "sync" =>
       /\ \A m \in Modules : \A k \in DOMAIN Table(m) :
            \A c \in InternalColumns : TableNext(m)[k][c] = Table(m)[k][c]
       /\ assignments' = assignments
       /\ comments' = comments]_vars

\* a record that was assigned and answered has just been merged again
SyncedOverWorkedRecord ==
  /\ last.op = "sync"
  /\ \E m \in Modules : \E k \in DOMAIN Table(m) :
       /\ last.module = m
       /\ Table(m)[k].lastSeenAt = now - 1
       /\ Table(m)[k].firstSeenAt < Table(m)[k].lastSeenAt
       /\ Table(m)[k].responseSentAt # NoTime
       /\ Table(m)[k].reviewDeadline # NoTime
       /\ \E a \in assignments : a.module = m /\ a.id = k

\* C2: once hasUnacknowledgedChange of a record is true, no sync step
\* (also one whose payload has the stored fingerprint) changes it to false;
\* only acknowledgeAccChanges clears it.
SyncKeepsChangeFlag ==
  [][last'.op = "sync" =>
       \A m \in Modules : \A k \in DOMAIN Table(m) :
         Table(m)[k].hasUnacknowledgedChange
           => TableNext(m)[k].hasUnacknowledgedChange]_vars

\* C3: merging into an existing record whose flag is false: with the stored
\* fingerprint the flag stays false and lastAccChangeAt and changesSummary
\* are left alone; with another fingerprint the flag becomes true,
\* lastAccChangeAt is stamped and the change summary is stored.  A record
\* created by its first sync has the flag false and the fingerprint stored.
ChangeFlagFollowsFingerprint ==
  [][last'.op = "sync" =>
       \A m \in Modules, l \in Links, a \in AccItems :
       SyncOf(m, l, a) =>
         LET k == <<l, a.id>>
             new == TableNext(m)[k]
         IN  IF k \notin DOMAIN Table(m)
               THEN /\ ~new.hasUnacknowledgedChange
                    /\ new.accDataHash = hashAccData(a)
             ELSE IF Table(m)[k].hasUnacknowledgedChange THEN TRUE
             ELSE IF Table(m)[k].accDataHash = hashAccData(a)
               THEN /\ ~new.hasUnacknowledgedChange
                    /\ new.lastAccChangeAt = Table(m)[k].lastAccChangeAt
                    /\ new.changesSummary = Table(m)[k].changesSummary
             ELSE /\ new.hasUnacknowledgedChange
                  /\ new.lastAccChangeAt = now
                  /\ new.changesSummary =
                       JsonStringify(detectChanges(Table(m)[k], a), {})]_vars

\* a merge has just flagged a change of the external status
ChangeFlagged ==
  /\ last.op = "sync"
  /\ \E m \in Modules : \E k \in DOMAIN Table(m) :
       /\ Table(m)[k].hasUnacknowledgedChange
       /\ Table(m)[k].lastAccChangeAt = now - 1
       /\ "status" \in DOMAIN JsonParse(Table(m)[k].changesSummary)

\* C4: while a detected manual response is unconfirmed, a sync that sees
\* the external response again stores the latest external data in
\* manualResponseData and leaves manualResponseDetectedAt at the time of the
\* first detection.
RedetectionKeepsFirstDetectionTime ==
  [][last'.op = "sync" =>
       \A m \in Modules, l \in Links, a \in AccItems :
       LET k == <<l, a.id>>
       IN  (/\ SyncOf(m, l, a)
            /\ HasResponseText(a)
            /\ k \in DOMAIN Table(m)
            /\ Table(m)[k].hasManualResponse
            /\ Table(m)[k].manualResponseConfirmedAt = NoTime)
           => /\ \E r \in a.response :
                   Get(JsonParse(TableNext(m)[k].manualResponseData), "text")
                     = r.text
              /\ TableNext(m)[k].manualResponseDetectedAt
                   = Table(m)[k].manualResponseDetectedAt]_vars

\* C5: after a confirmation, no sync step changes manualResponseData,
\* manualResponseDetectedAt, manualResponseConfirmedAt or
\* manualResponseConfirmedBy of the record.
ConfirmedResponseIsFrozen ==
  [][last'.op = "sync" =>
       \A m \in Modules : \A k \in DOMAIN Table(m) :
         Table(m)[k].manualResponseConfirmedAt # NoTime
           => \A c \in ManualResponseColumns :
                TableNext(m)[k][c] = Table(m)[k][c]]_vars

\* C6: after a sync of an item that carries a non-empty response text,
\* while the record has no responseSentAt, the record has hasManualResponse
\* true and the response captured; also when that sync created the record.
SyncCapturesResponse ==
  [][last'.op = "sync" =>
       \A m \in Modules, l \in Links, a \in AccItems :
       LET k == <<l, a.id>>
       IN  (/\ SyncOf(m, l, a)
            /\ HasResponseText(a)
            /\ (k \in DOMAIN Table(m)
                  => Table(m)[k].responseSentAt = NoTime))
           => /\ TableNext(m)[k].hasManualResponse
              /\ TableNext(m)[k].manualResponseData # NullJson]_vars

\* the caller is no member of the project, or a member that is neither
\* project admin nor allowed to send
NotPermitted(userId) ==
  \/ memberships(userId) = <<>>
  \/ /\ memberships(userId)[1].role # "PROJECT_ADMIN"
     /\ ~memberships(userId)[1].canSendToAcc

PermissionErrors ==
  {"User is not a member of this project",
   "Only project admins are authorized to send responses to ACC",
   "Only project admins can confirm manual responses"}

FailedSendChangesNothing ==
  [][PassedSend =>
       LET m == last'.module
           k == last'.id
           u == last'.user
           d == last'.request[1]
           f == last'.request[2]
       IN  (SendOf(m, k, u, d, f) /\ f # 0) =>
           /\ \A c \in ResponseColumns : TableNext(m)[k][c] = Table(m)[k][c]
           /\ last'.error # NoError
           /\ Len(auditLog') > Len(auditLog)
           /\ auditLog'[Len(auditLog')].action = "SEND_TO_ACC_FAILED"
           /\ JsonParse(auditLog'[Len(auditLog')].details)
                = [error |-> last'.error]]_vars

\* read and upload of each file, in list order
RECURSIVE Uploads(_, _, _)
Uploads(m, k, paths) ==
  IF paths = <<>> THEN <<>>
  ELSE <<<<"readFile", Head(paths)>>,
         <<"uploadAttachment", m, k[2], Head(paths).name>>>>
       \o Uploads(m, k, Tail(paths))

\* the external calls of a complete send
ExternalEffects(m, k, d) ==
  <<<<"getValidToken">>,
    <<"updateStatus", m, k[2], d.responseStatus>>,
    <<"postResponse", m, k[2], d.responseText>>>>
  \o Uploads(m, k, d.selectedFilePaths)

IsPrefix(s, t) == Len(s) <= Len(t) /\ s = SubSeq(t, 1, Len(s))

\* C9: the external calls of a send are made in the order status, response
\* text, then per file of the list its read and upload; the record is
\* written only after all of them succeeded; a failure on a file ends the
\* call: no later file is read or uploaded and no table is written but for
\* the audit entry of the failure.
SendOrder ==
  [][PassedSend =>
       LET m == last'.module
           k == last'.id
           u == last'.user
           d == last'.request[1]
           f == last'.request[2]
       IN  SendOf(m, k, u, d, f) =>
           /\ IsPrefix(last'.calls, ExternalEffects(m, k, d))
           /\ TableNext(m)[k] # Table(m)[k]
                => last'.calls = ExternalEffects(m, k, d)
           /\ (last'.error # NoError
               /\ last'.error[1] = "Failed to upload file")
                => /\ Len(last'.calls) < Len(ExternalEffects(m, k, d))
                   /\ UNCHANGED <<rfi, submittal, statusHistory>>
                   /\ \A i \in Len(auditLog) + 1 .. Len(auditLog') :
                        auditLog'[i].action = "SEND_TO_ACC_FAILED"]_vars

\* a send uploaded its first file and failed on the second
SecondFileFailed ==
  /\ last.op = "send"
  /\ last.error = <<"Failed to upload file", "a.pdf">>
  /\ Len(last.calls) >= 5
  /\ last.calls[5] = <<"uploadAttachment", last.module, last.id[2], "b.pdf">>
  /\ Table(last.module)[last.id].responseSentAt = NoTime

\* C10: a send that returns without an error has written the submitted
\* status and text, the send time, the caller and SENT_TO_ACC to the
\* record, and has appended exactly one audit entry, SEND_TO_ACC with the
\* status, the file count and the file names, and exactly one status
\* history entry by the caller.
SuccessfulSendCommits ==
  [][PassedSend =>
       LET m == last'.module
           k == last'.id
           u == last'.user
           d == last'.request[1]
           f == last'.request[2]
       IN  (SendOf(m, k, u, d, f) /\ last'.error = NoError) =>
           LET r == TableNext(m)[k]
               audit == auditLog'[Len(auditLog')]
               entry == statusHistory'[Len(statusHistory')]
           IN  /\ r.responseStatus = d.responseStatus
               /\ r.responseText = d.responseText
               /\ r.responseSentAt = now
               /\ r.responseSentBy = u
               /\ r.internalStatus = "SENT_TO_ACC"
               /\ Len(auditLog') = Len(auditLog) + 1
               /\ IsPrefix(auditLog, auditLog')
               /\ audit.action = "SEND_TO_ACC"
               /\ audit.userId = u
               /\ audit.entityType = m
               /\ audit.entityId = k
               /\ JsonParse(audit.details) =
                    [responseStatus |-> d.responseStatus,
                     fileCount |-> Len(d.selectedFilePaths),
                     files |-> [i \in 1 .. Len(d.selectedFilePaths) |->
                                  d.selectedFilePaths[i].name]]
               /\ Len(statusHistory') = Len(statusHistory) + 1
               /\ IsPrefix(statusHistory, statusHistory')
               /\ entry.module = m
               /\ entry.id = k
               /\ entry.fieldName = "responseStatus"
               /\ entry.newValue = d.responseStatus
               /\ entry.changedBy = u]_vars

\* a flagged reviewer has just sent a response with two files
ResponseSent ==
  /\ last.op = "send"
  /\ last.error = NoError
  /\ last.user = "flagged"
  /\ Table(last.module)[last.id].internalStatus = "SENT_TO_ACC"
  /\ Table(last.module)[last.id].responseSentBy = "flagged"
  /\ Len(auditLog) > 0
  /\ auditLog[Len(auditLog)].action = "SEND_TO_ACC"
  /\ JsonParse(auditLog[Len(auditLog)].details).fileCount = 2

\* what a request lacks, in the order the claim lists the conditions
ValidationError(d) ==
  IF d.responseStatus = UNDEF THEN "Response status is required"
  ELSE IF d.responseText \in {"", " "} THEN "Response text is required"
  ELSE IF d.selectedFilePaths = <<>>
    THEN "At least one file must be selected"
  ELSE ""

ConfirmAudits(log, m, k) ==
  {i \in 1 .. Len(log) :
     /\ log[i].action = "CONFIRM_MANUAL_RESPONSE"
     /\ log[i].entityType = m
     /\ log[i].entityId = k}

\* the status history entries of confirmations of record k
ConfirmHistory(history, m, k) ==
  {i \in 1 .. Len(history) :
     /\ history[i].module = m
     /\ history[i].id = k
     /\ history[i].fieldName = "internalStatus"
     /\ history[i].changeReason = "Manual response confirmed by admin"}

\* C12: a confirmation of a record that is already confirmed, called by a
\* permitted user, fails with the already-confirmed error and changes
\* nothing; so the confirmation time and the confirmer of a record are set
\* once and never change, and a confirmed record has exactly one
\* CONFIRM_MANUAL_RESPONSE audit entry and one history entry of its closing
\* (an unconfirmed record has none).
ConfirmedOnce ==
  [][/\ (/\ last'.op = "confirm"
         /\ ~NotPermitted(last'.user)
         /\ last'.id \in DOMAIN Table(last'.module)
         /\ Table(last'.module)[last'.id].manualResponseConfirmedAt # NoTime)
          => /\ last'.error =
                  Err("Manual response has already been confirmed")
             /\ UNCHANGED <<rfi, submittal, auditLog, statusHistory>>
     /\ \A m \in Modules : \A k \in DOMAIN TableNext(m) :
          LET count == IF TableNext(m)[k].manualResponseConfirmedAt # NoTime
                         THEN 1 ELSE 0
          IN  /\ Cardinality(ConfirmAudits(auditLog', m, k)) = count
              /\ Cardinality(ConfirmHistory(statusHistory', m, k)) = count
              /\ (/\ k \in DOMAIN Table(m)
                  /\ Table(m)[k].manualResponseConfirmedAt # NoTime)
                   => /\ TableNext(m)[k].manualResponseConfirmedAt
                           = Table(m)[k].manualResponseConfirmedAt
                      /\ TableNext(m)[k].manualResponseConfirmedBy
                           = Table(m)[k].manualResponseConfirmedBy]_vars

\* the admin's confirmation was followed at once by a second one, which
\* was turned down
SecondConfirmRejected ==
  /\ last.op = "confirm"
  /\ last.user = "admin"
  /\ last.error = Err("Manual response has already been confirmed")
  /\ Table(last.module)[last.id].manualResponseConfirmedAt = now - 1
  /\ Table(last.module)[last.id].manualResponseConfirmedBy = "admin"
  /\ auditLog[Len(auditLog)].action = "CONFIRM_MANUAL_RESPONSE"

\* C13: a confirmation that returns has written the caller and the time to
\* manualResponseConfirmedBy / manualResponseConfirmedAt, the status and the
\* text of the captured payload to responseStatus / responseText, and
\* CLOSED to internalStatus, and has appended one CONFIRM_MANUAL_RESPONSE
\* audit entry and one status history entry whose old value is the internal
\* status before the call and whose new value is CLOSED.
SuccessfulConfirmCommits ==
  [][(last'.op = "confirm" /\ last'.error = NoError) =>
       LET m == last'.module
           k == last'.id
           before == Table(m)[k]
           r == TableNext(m)[k]
           captured == before.manualResponseData[2]
           audit == auditLog'[Len(auditLog')]
           entry == statusHistory'[Len(statusHistory')]
       IN  /\ r.manualResponseConfirmedBy = last'.user
           /\ r.manualResponseConfirmedAt = now
           /\ r.manualResponseConfirmedAt # NoTime
           /\ r.responseStatus = captured.status
           /\ r.responseText = captured.text
           /\ r.internalStatus = "CLOSED"
           /\ Len(auditLog') = Len(auditLog) + 1
           /\ IsPrefix(auditLog, auditLog')
           /\ audit.action = "CONFIRM_MANUAL_RESPONSE"
           /\ audit.userId = last'.user
           /\ audit.entityType = m
           /\ audit.entityId = k
           /\ Len(statusHistory') = Len(statusHistory) + 1
           /\ IsPrefix(statusHistory, statusHistory')
           /\ entry.module = m
           /\ entry.id = k
           /\ entry.fieldName = "internalStatus"
           /\ entry.oldValue = before.internalStatus
           /\ entry.newValue = "CLOSED"]_vars

\* the flagged reviewer has just confirmed the response detected on a
\* record that was under review
ConfirmedWhileUnderReview ==
  /\ last.op = "confirm"
  /\ last.error = NoError
  /\ last.user = "flagged"
  /\ Table(last.module)[last.id].internalStatus = "CLOSED"
  /\ Table(last.module)[last.id].manualResponseConfirmedAt = now - 1
  /\ Table(last.module)[last.id].responseText = "Revised"
  /\ statusHistory[Len(statusHistory)].oldValue = "UNDER_REVIEW"
  /\ statusHistory[Len(statusHistory)].newValue = "CLOSED"

\* C14: a confirmation by a permitted caller of a record that has no
\* detected response, that is already confirmed, or whose captured payload
\* cannot be parsed fails with the error of one of the conditions that
\* hold, the error of the unreadable payload being different from the
\* other two; the records are unchanged and no audit or history entry is
\* written.
FailedConfirmChangesNothing ==
  [][(/\ last'.op = "confirm"
      /\ ~NotPermitted(last'.user)
      /\ last'.id \in DOMAIN Table(last'.module)) =>
       LET row == Table(last'.module)[last'.id]
           notPending ==
             IF row.hasManualResponse THEN {}
             ELSE {"RFI does not have a manual response to confirm",
                   "Submittal does not have a manual response to confirm"}
           confirmed ==
             IF row.manualResponseConfirmedAt = NoTime THEN {}
             ELSE {"Manual response has already been confirmed"}
           corrupt ==
             IF row.hasManualResponse
                /\ row.manualResponseData = CorruptPayload
               THEN {"Invalid manual response data"}
             ELSE {}
       IN  /\ corrupt \cap (notPending \cup confirmed) = {}
           /\ (notPending \cup confirmed \cup corrupt) # {}
                => /\ last'.error \in
                        {Err(e) : e \in notPending \cup confirmed \cup corrupt}
                   /\ UNCHANGED <<rfi, submittal, auditLog,
                                  statusHistory>>]_vars

\* the admin's confirmation of an unreadable payload was turned down
CorruptPayloadReported ==
  /\ last.op = "confirm"
  /\ last.user = "admin"
  /\ last.error = Err("Invalid manual response data")
  /\ Table(last.module)[last.id].manualResponseData = CorruptPayload
  /\ Table(last.module)[last.id].manualResponseConfirmedAt = NoTime
  /\ auditLog = <<>>

\* C15: in every state, a record whose manualResponseConfirmedAt is set has
\* manualResponseConfirmedBy set and internalStatus CLOSED.
ConfirmedIsClosed ==
  \A m \in Modules : \A k \in DOMAIN Table(m) :
    Table(m)[k].manualResponseConfirmedAt # NoTime
      => /\ Table(m)[k].manualResponseConfirmedBy # NULL
         /\ Table(m)[k].internalStatus = "CLOSED"

\* C16: in every state, a record with hasManualResponse = true has a
\* captured payload (manualResponseData not null) and a detection time
\* (manualResponseDetectedAt not null).
ManualResponseHasPayload ==
  \A m \in Modules : \A k \in DOMAIN Table(m) :
    Table(m)[k].hasManualResponse
      => /\ Table(m)[k].manualResponseData # NullJson
         /\ Table(m)[k].manualResponseDetectedAt # NoTime

\* the response of the platform was captured on a record by the last sync
ResponseCaptured ==
  /\ last.op = "sync"
  /\ \E m \in Modules : \E k \in DOMAIN Table(m) :
       /\ Table(m)[k].hasManualResponse
       /\ Table(m)[k].manualResponseDetectedAt = now - 1
       /\ JsonParse(Table(m)[k].manualResponseData).text = "Revised"

\* the edges of the workflow: one step forward, and the one-step back edges
TransitionEdges ==
  {<<"UNASSIGNED", "ASSIGNED_FOR_REVIEW">>,
   <<"ASSIGNED_FOR_REVIEW", "UNDER_REVIEW">>,
   <<"UNDER_REVIEW", "UNDER_QC">>,
   <<"UNDER_QC", "READY_FOR_RESPONSE">>,
   <<"READY_FOR_RESPONSE", "SENT_TO_ACC">>,
   <<"SENT_TO_ACC", "CLOSED">>,
   <<"ASSIGNED_FOR_REVIEW", "UNASSIGNED">>,
   <<"UNDER_REVIEW", "ASSIGNED_FOR_REVIEW">>,
   <<"UNDER_QC", "UNDER_REVIEW">>,
   <<"READY_FOR_RESPONSE", "UNDER_QC">>}

\* C17: CLOSED is terminal: no step changes the internalStatus of a record
\* that is CLOSED.
ClosedIsTerminal ==
  [][\A m \in Modules : \A k \in DOMAIN Table(m) :
       Table(m)[k].internalStatus = "CLOSED"
         => TableNext(m)[k].internalStatus = "CLOSED"]_vars

\* C18: a step that changes the internalStatus of a record to CLOSED from a
\* status other than SENT_TO_ACC is a confirmation, and a step of any other
\* operation that changes internalStatus moves along an edge of the
\* transition table.
StatusMovesAlongEdges ==
  [][\A m \in Modules : \A k \in DOMAIN Table(m) :
       LET old == Table(m)[k].internalStatus
           new == TableNext(m)[k].internalStatus
       IN  old # new =>
             /\ (new = "CLOSED" /\ old # "SENT_TO_ACC")
                  => last'.op = "confirm"
             /\ last'.op # "confirm"
                  => <<old, new>> \in TransitionEdges]_vars

AssignmentSetsStatusAndDeadlines ==
  [][(last'.op = "assign" /\ last'.error = NoError) =>
       LET m == last'.module
           k == last'.id
           before == Table(m)[k]
           r == TableNext(m)[k]
           deadlines == calculateInternalDeadlines(DeadlineRules,
                          before.accDueDate, before.priority, now)
       IN  /\ \E a \in assignments' :
                /\ a.module = m /\ a.id = k /\ a.assignedBy = last'.user
           /\ r.internalStatus = "ASSIGNED_FOR_REVIEW"
           /\ r.reviewDeadline = deadlines.reviewDeadline
           /\ r.qcDeadline = deadlines.qcDeadline]_vars

\* C21: a step that changes the internalStatus of a record appends a status
\* history entry for that change: the record, the old value, the new value
\* and the acting user.
StatusChangeIsRecorded ==
  [][\A m \in Modules : \A k \in DOMAIN Table(m) :
       LET old == Table(m)[k].internalStatus
           new == TableNext(m)[k].internalStatus
       IN  old # new =>
             \E i \in Len(statusHistory) + 1 .. Len(statusHistory') :
               /\ statusHistory'[i].module = m
               /\ statusHistory'[i].id = k
               /\ statusHistory'[i].fieldName = "internalStatus"
               /\ statusHistory'[i].oldValue = old
               /\ statusHistory'[i].newValue = new
               /\ statusHistory'[i].changedBy = last'.user]_vars

SummaryFields == {"status", "title", "dueDate", "priority"}

OneRecordPerLinkAndItem ==
  [][\A m \in Modules : \A l \in ProjectLinks, a \in LinkItems :
       SyncOf(m, l, a) =>
         /\ DOMAIN TableNext(m) = DOMAIN Table(m) \cup {<<l, a.id>>}
         /\ \A k \in DOMAIN Table(m) :
              IF k = <<l, a.id>>
                THEN /\ TableNext(m)[k].firstSeenAt = Table(m)[k].firstSeenAt
                     /\ TableNext(m)[k].lastSeenAt = now
                ELSE TableNext(m)[k] = Table(m)[k]
         /\ <<l, a.id>> \notin DOMAIN Table(m) =>
              TableNext(m)[<<l, a.id>>].firstSeenAt = now
         /\ \A o \in Modules \ {m} : TableNext(o) = Table(o)]_vars

\* the item X-1 has a record under each link; the one of L1 was synced
\* again after the one of L2 was created
SameItemUnderTwoLinks ==
  /\ {<<"L1", "X-1">>, <<"L2", "X-1">>} \subseteq DOMAIN rfi
  /\ rfi[<<"L1", "X-1">>].firstSeenAt < rfi[<<"L2", "X-1">>].firstSeenAt
  /\ rfi[<<"L2", "X-1">>].lastSeenAt < rfi[<<"L1", "X-1">>].lastSeenAt
  /\ rfi[<<"L2", "X-1">>].lastSeenAt = rfi[<<"L2", "X-1">>].firstSeenAt

\* C22: when a run of the orchestrator is over, every module cycle that
\* syncProject had to run for the links it loaded was run, whichever cycle
\* failed, and syncProject was called for every project that has links.
FailingCycleIsIsolated ==
  \A p \in Procs :
    runs[p].pc = "done" =>
      /\ runs[p].planned \subseteq runs[p].started
      /\ runs[p].op = "syncAllProjects" =>
           \A id \in Range(ProjectOrder) :
             LinksOf(id) # <<>> => id \in Range(runs[p].called)

\* C23: a turn of the item loop either persists its item or adds one error
\* naming the item to the error list, and goes on to the next item in both
\* cases; the errors of the items are in the error list the RunLog gets
\* when the cycle closes it.
ItemFailureIsIsolated ==
  [][\A p \in Procs :
       LET r == runs[p]
           q == runs'[p]
           link == Head(r.cycles)[1]
           m == Head(r.cycles)[2]
       IN  /\ r.pc = "item" /\ q # r =>
                LET item == Head(r.items)
                    key == <<link, item.id>>
                IN  /\ q.items = Tail(r.items)
                    /\ q.pc = IF q.items = <<>> THEN "cursor" ELSE "item"
                    /\ q.rejected = r.rejected
                    /\ \/ /\ key \in DOMAIN TableNext(m)
                          /\ TableNext(m)[key].lastSeenAt = now
                          /\ q.result.errors = r.result.errors
                       \/ /\ \E msg \in {StoreError, ForeignKeyError} :
                               q.result.errors =
                                 Append(r.result.errors,
                                        ItemError(m, item.id, msg))
                          /\ UNCHANGED <<rfi, submittal>>
           /\ /\ r.pc \notin {"idle", "done", "project", "create", "stamp"}
              /\ syncLog'[r.logId] # syncLog[r.logId]
              => \A e \in Range(r.result.errors) :
                   /\ syncLog'[r.logId].errors # NullJson
                   /\ e \in Range(syncLog'[r.logId].errors[2])]_vars

\* C24: a RunLog is created with status STARTED, and a row of the table
\* changes only from STARTED to COMPLETED or FAILED.
RunLogClosedOnce ==
  [][\A i \in DOMAIN syncLog' :
       IF i \in DOMAIN syncLog
         THEN syncLog'[i] # syncLog[i] =>
                /\ syncLog[i].status = "STARTED"
                /\ syncLog'[i].status \in {"COMPLETED", "FAILED"}
         ELSE syncLog'[i].status = "STARTED"]_vars

\* C25: the failure path of a cycle whose token acquisition or fetch
\* failed closes the RunLog as FAILED with the message and returns to
\* syncProject without an exception; the end of a cycle whose items failed
\* closes the RunLog as COMPLETED with the errors of the items.
CycleFailuresAreContained ==
  [][\A p \in Procs :
       LET r == runs[p]
           q == runs'[p]
       IN  /\ /\ r.pc \in {"failLog", "failLink"}
              /\ r.failure \in {TokenError, FetchError}
              /\ q # r
              => /\ q.rejected = r.rejected
                 /\ r.pc = "failLog" =>
                      /\ syncLog'[r.logId].status = "FAILED"
                      /\ syncLog'[r.logId].errors = <<"json", <<r.failure>>>>
           /\ r.pc = "close" /\ q.pc = "link" /\ r.result.errors # <<>>
              => /\ syncLog'[r.logId].status = "COMPLETED"
                 /\ syncLog'[r.logId].errors = <<"json", r.result.errors>>]_vars

\* the caller is between the creation of a RunLog and the end of its cycle
InCycle(r) ==
  r.pc \in {"load", "token", "fetch", "item", "cursor", "close", "link",
            "failLog", "failLink"}

\* C28: no two callers are inside a module cycle of the same project and
\* module at the same time, and no two RunLogs of the same project and
\* module are STARTED at the same time.
CyclesDoNotOverlap ==
  /\ \A p \in Procs : \A q \in Procs \ {p} :
       ~ /\ InCycle(runs[p]) /\ InCycle(runs[q])
         /\ runs[p].projectId = runs[q].projectId
         /\ Head(runs[p].cycles)[2] = Head(runs[q].cycles)[2]
  /\ \A i \in DOMAIN syncLog : \A j \in DOMAIN syncLog \ {i} :
       ~ /\ syncLog[i].status = "STARTED" /\ syncLog[j].status = "STARTED"
         /\ syncLog[i].projectId = syncLog[j].projectId
         /\ syncLog[i].module = syncLog[j].module

ConfirmationsAreSerialized ==
  \A m \in Modules : \A k \in Ids :
    /\ Cardinality(ConfirmAudits(auditLog, m, k)) <= 1
    /\ Cardinality(ConfirmHistory(statusHistory, m, k)) <= 1
    /\ Cardinality({p \in Procs :
                      /\ runs[p].op = "confirmManualResponse"
                      /\ runs[p].pc = "done"
                      /\ runs[p].module = m /\ runs[p].key = k
                      /\ runs[p].failure = <<>>}) <= 1

\* C31: a merge that finds the fingerprint changed stores a ChangeSummary
\* with an entry {old, new} for a field of status, title, dueDate, priority
\* exactly when the payload's value differs from the value synced before
\* (a due date absent before and now is not reported), and appends exactly
\* one status-history entry, whose actor is "sync".
ChangeSummaryIsExact ==
  [][last'.op = "sync" =>
       \A m \in Modules : \A l \in Links, a \in DiffItems :
         (SyncOf(m, l, a) /\ <<l, a.id>> \in DOMAIN Table(m)
          /\ Table(m)[<<l, a.id>>].accDataHash # hashAccData(a)) =>
           LET before == Table(m)[<<l, a.id>>]
               summary == JsonParse(TableNext(m)[<<l, a.id>>].changesSummary)
           IN  /\ DOMAIN summary \subseteq SummaryFields
               /\ "status" \in DOMAIN summary <=> before.accStatus # a.status
               /\ "title" \in DOMAIN summary <=> before.title # a.title
               /\ "priority" \in DOMAIN summary
                    <=> before.priority # a.priority
               /\ "dueDate" \in DOMAIN summary
                    <=> before.accDueDate # a.dueDate
               /\ Len(statusHistory') = Len(statusHistory) + 1
               /\ statusHistory'[Len(statusHistory')].changedBy = "sync"]_vars

\* C32: the list of a project holds, once each, the records of the project
\* that have a manual response and no confirmation time, the one detected
\* last first; a record that was confirmed is not in the list, whatever
\* was synced since.
PendingListIsExact ==
  \A m \in Modules : \A projectId \in Range(ProjectOrder) :
    LET list == listWithManualResponses(m, projectId)
        at(i) == Table(m)[list[i]].manualResponseDetectedAt
    IN  /\ Range(list) =
             {k \in DOMAIN Table(m) :
                /\ (k[1] \in {"L1", "L2"}) = (projectId = "P1")
                /\ Table(m)[k].hasManualResponse = TRUE
                /\ Table(m)[k].manualResponseConfirmedAt = NoTime}
        /\ Len(list) = Cardinality(Range(list))
        /\ \A i \in DOMAIN list : \A j \in DOMAIN list :
             i < j => at(i) >= at(j)
        /\ \A k \in DOMAIN Table(m) :
             ConfirmAudits(auditLog, m, k) # {} => k \notin Range(list)

\* a response was detected after the one pending from the start and
\* confirmed; the record was then synced again with the response and
\* flagged again, and the list holds the other record only
ConfirmedThenSyncedAgain ==
  /\ rfi[<<"L1", "X-1">>].manualResponseConfirmedAt # NoTime
  /\ rfi[<<"L1", "X-1">>].lastSeenAt
       > rfi[<<"L1", "X-1">>].manualResponseConfirmedAt
  /\ rfi[<<"L1", "X-1">>].hasManualResponse
  /\ rfi[<<"L1", "X-1">>].manualResponseDetectedAt
       > rfi[<<"L1", "X-2">>].manualResponseDetectedAt
  /\ listWithManualResponses("RFI", "P1") = <<<<"L1", "X-2">>>>

\* C33: the fingerprints of two payloads are equal exactly when the
\* payloads agree on status, dueDate, title, description, priority,
\* assignedTo and updatedAt, whatever the order of their properties and
\* whatever their other properties.
FingerprintIsTheProjection ==
  last.op = "hashAccData" =>
    LET first == last.request[1]
        second == last.request[2]
        value(data, name) ==
          {data[i][2] : i \in {j \in DOMAIN data : data[j][1] = name}}
    IN  (last.returned[1] = last.returned[2])
          <=> \A f \in ProjectedFields : value(first, f) = value(second, f)

\* two payloads with the same projection, in opposite property order and
\* with different other fields, got the same fingerprint
SameFingerprintInAnyOrder ==
  /\ last.op = "hashAccData"
  /\ last.request[1][1][1] = "id"
  /\ last.request[2][1][1] = "response"
  /\ Property(last.request[1], "discipline") = "Structural"
  /\ Property(last.request[2], "discipline") = "Civil"
  /\ Property(last.request[1], "title") = UNDEF
  /\ last.returned[1] = last.returned[2]

\* C34: when the write of the last-run status at the end of a module cycle
\* for link L succeeds, L has the outcome of the cycle ('success' and no
\* error, or 'failed' and the error text), and the last-run status and
\* error of every other link are as before.
LinkStatusIsOfTheCycle ==
  [][\A p \in Procs :
       (/\ runs[p].pc \in {"link", "failLink"}
        /\ runs'[p].pc \in {"stamp", "create"}) =>
         LET r == runs[p]
             L == Head(r.cycles)[1]
             failed == r.pc = "failLink" \/ Len(r.result.errors) > 0
         IN  /\ accProjectLink'[L].lastSyncStatus =
                  (IF failed THEN "failed" ELSE "success")
             /\ IF failed
                  THEN accProjectLink'[L].lastSyncError =
                         (IF r.pc = "failLink" THEN r.failure
                          ELSE <<"joined", r.result.errors>>)
                  ELSE accProjectLink'[L].lastSyncError = NULL
             /\ \A l \in DOMAIN accProjectLink \ {L} :
                  /\ accProjectLink'[l].lastSyncStatus
                       = accProjectLink[l].lastSyncStatus
                  /\ accProjectLink'[l].lastSyncError
                       = accProjectLink[l].lastSyncError]_vars

\* C38: in every run log that is COMPLETED, itemsProcessed is newItems plus
\* updatedItems plus the number of entries of the error list; and the run
\* log a cycle closes as COMPLETED has the number of items the platform
\* listed for the link and module of the cycle as itemsProcessed.
CompletedCountsAddUp ==
  [][/\ \A i \in DOMAIN syncLog' :
          syncLog'[i].status = "COMPLETED" =>
            syncLog'[i].itemsProcessed =
              syncLog'[i].newItems + syncLog'[i].updatedItems
              + (IF syncLog'[i].errors = NullJson THEN 0
                 ELSE Len(syncLog'[i].errors[2]))
     /\ \A p \in Procs :
          (runs[p].pc = "close" /\ runs'[p].pc = "link") =>
            /\ syncLog'[runs[p].logId].status = "COMPLETED"
            /\ syncLog'[runs[p].logId].itemsProcessed =
                 Len(Listed(Head(runs[p].cycles)[1],
                            Head(runs[p].cycles)[2]))]_vars

\* a cycle that listed two items, stored one and failed on the other was
\* closed as COMPLETED
CompletedWithAnItemError ==
  \E i \in DOMAIN syncLog :
    /\ syncLog[i].status = "COMPLETED"
    /\ syncLog[i].itemsProcessed = 2
    /\ syncLog[i].newItems = 1
    /\ syncLog[i].errors # NullJson
    /\ Len(syncLog[i].errors[2]) = 1

\* C37: a run log that was created as STARTED is closed in the end, as
\* COMPLETED or as FAILED, whichever awaited call of the cycle fails.
RunLogIsClosedInTheEnd ==
  \A i \in 1 .. Cardinality(DOMAIN LinkProject) * Cardinality(Modules) :
    (i \in DOMAIN syncLog /\ syncLog[i].status = "STARTED")
      ~> (i \in DOMAIN syncLog
          /\ syncLog[i].status \in {"COMPLETED", "FAILED"})

\* C36: the cycle that lists a record with the response a send posted for
\* it does not flag that response as manual: hasManualResponse and the
\* detection time of the record are as before the cycle.
PostedResponseIsNotManual ==
  [][(Posted /\ last'.op = "sync") =>
       LET before == Table(last.module)[last.id]
           after == TableNext(last.module)[last.id]
       IN  /\ after.hasManualResponse = before.hasManualResponse
           /\ after.manualResponseDetectedAt
                = before.manualResponseDetectedAt]_vars

\* C39: the review deadline returned by calculateInternalDeadlines is not
\* later than the QC deadline, and the QC deadline is not later than the
\* external due date.
DeadlinesAreOrdered ==
  last.op = "calculateInternalDeadlines" =>
    /\ last.returned.reviewDeadline <= last.returned.qcDeadline
    /\ last.returned.qcDeadline <= last.request[2]

\* C35: after any sequence of runs of the poll there is at most one
\* IngestedItem per (externalId, module, projectId); processItem returns
\* true exactly when no row of the item existed, and it then adds one row;
\* otherwise it changes lastSeenAt and payloadHash of the row of the item
\* and nothing else.
IngestionIsIdempotent ==
  [][last'.op = "processItem" =>
       LET projectId == last'.request[1]
           module == last'.request[2]
           item == last'.request[3]
           same(row) == /\ row.externalId = item.externalId
                        /\ row.module = module
                        /\ row.projectId = projectId
           before == {i \in DOMAIN ingestedItem : same(ingestedItem[i])}
       IN  /\ last'.returned = (before = {})
           /\ \A i \in DOMAIN ingestedItem', j \in DOMAIN ingestedItem' :
                (/\ ingestedItem'[i].externalId = ingestedItem'[j].externalId
                 /\ ingestedItem'[i].module = ingestedItem'[j].module
                 /\ ingestedItem'[i].projectId = ingestedItem'[j].projectId)
                  => i = j
           /\ Len(ingestedItem') =
                Len(ingestedItem) + (IF before = {} THEN 1 ELSE 0)
           /\ \A i \in DOMAIN ingestedItem :
                ingestedItem'[i] =
                  IF i \in before
                    THEN [ingestedItem[i] EXCEPT
                            !.lastSeenAt = now,
                            !.payloadHash = <<"sha256", item>>]
                    ELSE ingestedItem[i]]_vars

\* an item was ingested, seen again unchanged or for the other module, and
\* then seen with a changed payload
ChangedItemSeenAgain ==
  /\ last.op = "processItem"
  /\ last.returned = FALSE
  /\ Len(ingestedItem) >= 2
  /\ \E i \in DOMAIN ingestedItem :
       /\ ingestedItem[i].externalId = last.request[3].externalId
       /\ ingestedItem[i].module = last.request[2]
       /\ ingestedItem[i].projectId = last.request[1]
       /\ ingestedItem[i].firstSeenAt = 1
       /\ ingestedItem[i].lastSeenAt = 3
       /\ ingestedItem[i].payloadHash = <<"sha256", last.request[3]>>
       /\ last.request[3].status = "closed"

====
